---- MODULE Spec2Model ----
(***************************************************************************)
(* A model of scratchmark (src/unnamed/part_000): the line normalizer, the *)
(* block engine with its built-in block parsers, the inline engine with    *)
(* its built-in inline parsers, and the postprocess pass (footnote         *)
(* numbering, link/image reference substitution).                           *)
(*                                                                         *)
(* Strings are sequences of one-character strings.  Cursors and indexes    *)
(* are 0-based as in the source: At(t, i) is t[i] of the source.           *)
(***************************************************************************)
EXTENDS Integers, Sequences, FiniteSets, TLC

\* ------------------------------------------------------------------------
\* Bounds of the model
\* ------------------------------------------------------------------------
\* lines of a document
MaxLines == 3
\* lines of a document with footnotes
MaxFootLines == 4
\* characters of the X of '**' + X + '**'
MaxInlineLen == 3
\* the parsers added to a ParserCollection
MaxParsers == 3
\* the characters of a text given to the line normalizer
MaxTextLen == 6
\* the lines of a document of a sequence of calls, and the calls
MaxSeqLines == 2
MaxCalls == 2

\* ------------------------------------------------------------------------
\* String helpers (JavaScript String semantics)
\* ------------------------------------------------------------------------
BS == "\\"
NL == "\n"
\* the backtick character
BT == "BACKTICK"

SetMin(S) == CHOOSE m \in S : \A n \in S : m <= n

Min2(a, b) == IF a <= b THEN a ELSE b

At(t, i) == t[i + 1]

\* String.prototype.slice(a, b) for a >= 0, clamped at the end of the string
Slice(t, a, b) ==
    LET bb == Min2(b, Len(t))
    IN  IF a >= bb THEN <<>> ELSE SubSeq(t, a + 1, bb)

SliceFrom(t, a) == Slice(t, a, Len(t))

StartsWithAt(t, p, i) ==
    /\ i >= 0
    /\ i + Len(p) <= Len(t)
    /\ \A k \in 1..Len(p) : t[i + k] = p[k]

StartsWith(t, p) == StartsWithAt(t, p, 0)

EndsWith(t, p) == Len(t) >= Len(p) /\ StartsWithAt(t, p, Len(t) - Len(p))

RECURSIVE Concat(_)
Concat(ss) == IF ss = <<>> THEN <<>> ELSE Head(ss) \o Concat(Tail(ss))

RECURSIVE Join(_, _)
Join(ss, sep) ==
    IF ss = <<>> THEN <<>>
    ELSE IF Len(ss) = 1 THEN ss[1]
    ELSE ss[1] \o sep \o Join(Tail(ss), sep)

\* String.prototype.trimRight for the white space the model's alphabet has
RECURSIVE trimRight(_)
trimRight(t) ==
    IF t # <<>> /\ t[Len(t)] \in {" ", "\t", "\r"}
    THEN trimRight(SubSeq(t, 1, Len(t) - 1))
    ELSE t

\* number of leading spaces: line.match(/^ */)[0].length
RECURSIVE LeadingSpaces(_)
LeadingSpaces(t) ==
    IF t # <<>> /\ t[1] = " " THEN 1 + LeadingSpaces(Tail(t)) ELSE 0

\* line.replace(/^ {0,n}/, '')
StripSpaces(t, n) == SliceFrom(t, Min2(n, LeadingSpaces(t)))

\* ------------------------------------------------------------------------
\* make_re / make_indexOf / noesc
\* ------------------------------------------------------------------------

\* make_re(txt) matches txt where it is not preceded by a backslash
ReMatchAt(t, p, i) ==
    /\ StartsWithAt(t, p, i)
    /\ (i = 0 \/ At(t, i - 1) # BS)

\* the smallest element of a set of positions, or -1 (no match)
FirstOf(c) == IF c = {} THEN -1 ELSE SetMin(c)

\* re.lastIndex = start; re.exec(text): index of the match, or -1
make_indexOf(t, p, start) ==
    FirstOf({i \in start..(Len(t) - Len(p)) : ReMatchAt(t, p, i)})

\* noesc removes every backslash that is not followed by a backslash
RECURSIVE noescFrom(_, _)
noescFrom(t, i) ==
    IF i > Len(t) THEN <<>>
    ELSE IF t[i] = BS /\ (i = Len(t) \/ t[i + 1] # BS) THEN noescFrom(t, i + 1)
    ELSE <<t[i]>> \o noescFrom(t, i + 1)

noesc(t) == noescFrom(t, 1)

TextNode(t) == [name |-> "text", text |-> t]

\* ast.forEach((node) => { node.type = 'inline' })
MarkInline(n) == [type |-> "inline"] @@ n

\* `let v = ...` of the source: the value v is computed once and body sees it
Let(v, body(_)) == body(v)

\* ------------------------------------------------------------------------
\* Inline parsers (registration order of the source)
\* ------------------------------------------------------------------------
NoEnder == <<>>
_bracket == <<")">>
_start_href == <<"]", "(">>

delimited(name, startsWith, endsWith) ==
    [name |-> name, kind |-> "delimited", startsWith |-> startsWith, endsWith |-> endsWith]

capture(name, startsWith, endsWith) ==
    [name |-> name, kind |-> "capture", startsWith |-> startsWith, endsWith |-> endsWith]

inlineparsers ==
    << delimited("strong", <<"*", "*">>, <<"*", "*">>),
       delimited("em", <<"*">>, <<"*">>),
       delimited("strong", <<"_", "_">>, <<"_", "_">>),
       delimited("em", <<"_">>, <<"_">>),
       delimited("sup", <<"^">>, <<"^">>),
       delimited("sub", <<"~">>, <<"~">>),
       capture("code", <<BT>>, <<BT>>),
       [name |-> "footnote_cite", kind |-> "cite", startsWith |-> <<"[", "^">>, endsWith |-> <<"]">>],
       [name |-> "a", kind |-> "a", startsWith |-> <<"[">>, endsWith |-> <<>>],
       [name |-> "img", kind |-> "img", startsWith |-> <<"!", "[">>, endsWith |-> <<>>] >>

\* parser.indexOf(text, cursor) of parser number p
ParserIndexOf(p, text, cursor) == make_indexOf(text, inlineparsers[p].startsWith, cursor)

\* a match position, or the end of text when there is no match
OrEnd(m, text) == IF m = -1 THEN Len(text) ELSE m

\* ender.indexOf(text, cursor): the terminator's match, or the end of text
EnderIndexOf(ender, text, cursor) ==
    IF ender = NoEnder THEN Len(text)
    ELSE OrEnd(make_indexOf(text, ender, cursor), text)

\* `txt == -1` of the source: a string compares equal to -1 when it
\* converts to the number -1
IsMinusOne(txt) == txt = <<"-", "1">>

\* the result of grab: the text taken and the cursor after it
Grabbed(txt, cursor) == [fail |-> IsMinusOne(txt), txt |-> txt, cursor |-> cursor]

\* grab(state, target, start, end_ok), idx the target's position
grabAt(text, cursor, idx, start, end_ok) ==
    IF idx >= 0 THEN Grabbed(Slice(text, start + cursor, idx), idx)
    ELSE IF end_ok THEN Grabbed(SliceFrom(text, start + cursor), Len(text))
    ELSE [fail |-> TRUE, txt |-> <<>>, cursor |-> cursor]

grab(text, cursor, target, start, end_ok) ==
    grabAt(text, cursor, make_indexOf(text, target, cursor + start), start, end_ok)

\* Nearest with `idxp <= idx`: a parser takes the place of the terminator or
\* of an earlier parser which matches at the same position
RECURSIVE NearestLastWins(_, _, _, _, _, _)
NearestLastWins(text, cursor, cur, i, idx, first) ==
    IF i > Len(cur) THEN [idx |-> idx, first |-> first]
    ELSE Let(ParserIndexOf(cur[i], text, cursor), LAMBDA idxp :
             IF idxp # -1 /\ idxp <= idx
             THEN NearestLastWins(text, cursor, cur, i + 1, idxp, cur[i])
             ELSE NearestLastWins(text, cursor, cur, i + 1, idx, first))

\* the loop `for (let i = 0; i < currentparsers.length; i++)` of parse_inline:
\* idx/first start as the terminator's and are replaced by a parser's on a
\* strictly smaller match position.  first = 0 is the terminator (ender).
RECURSIVE Nearest(_, _, _, _, _, _)
Nearest(text, cursor, cur, i, idx, first) ==
    IF i > Len(cur) THEN [idx |-> idx, first |-> first]
    ELSE Let(ParserIndexOf(cur[i], text, cursor), LAMBDA idxp :
             IF idxp # -1 /\ idxp < idx
             THEN Nearest(text, cursor, cur, i + 1, idxp, cur[i])
             ELSE Nearest(text, cursor, cur, i + 1, idx, first))

\* a filter which keeps only the parsers that match at the cursor itself
PruneAhead(text, cursor, cur) ==
    SelectSeq(cur, LAMBDA p : ParserIndexOf(p, text, cursor) = cursor)

\* currentparsers.filter((c) => c) after the failed matchers were marked
Prune(text, cursor, cur) ==
    SelectSeq(cur, LAMBDA p : ParserIndexOf(p, text, cursor) # -1)

AllParsers == [i \in 1..Len(inlineparsers) |-> i]

RECURSIVE parse_inline(_, _, _, _)
RECURSIVE InlineLoop(_, _, _, _, _, _)
RECURSIVE InlineParse(_, _, _, _)

\* delimited(...).parse: r is parse_inline's result for the interior
ParseDelimited(P, r) ==
    [ok |-> TRUE,
     node |-> [name |-> P.name, children |-> r.nodes],
     cursor |-> r.cursor + Len(P.endsWith),
     w |-> r.w]

\* capture's parse with the text left as grabbed
ParseCaptureLiteral(P, g, w) ==
    [ok |-> TRUE,
     node |-> [name |-> P.name, children |-> <<TextNode(g.txt)>>],
     cursor |-> g.cursor + Len(P.endsWith),
     w |-> w]

\* capture(...).parse: g is what grab took
ParseCapture(P, g, w) ==
    [ok |-> TRUE,
     node |-> [name |-> P.name, children |-> <<TextNode(noesc(g.txt))>>],
     cursor |-> g.cursor + Len(P.endsWith),
     w |-> w]

\* footnote_cite.parse on top of capture's: the <a> node is pushed to
\* footnote_def.cites with key = noesc of its text
ParseCite(P, g, w) ==
    [ok |-> TRUE,
     node |-> [name |-> "sup",
               children |-> << [name |-> "a", cid |-> Len(w.cites) + 1,
                                children |-> <<TextNode(noesc(g.txt))>>] >>],
     cursor |-> g.cursor + Len(P.endsWith),
     w |-> [w EXCEPT !.cites = Append(@, [key |-> noesc(noesc(g.txt)),
                                          numbered |-> FALSE,
                                          number |-> 0])]]

\* the end of the parse of 'a': g is the grab of the target, href its noesc
ParseLinkEnd(cursor, r, g, href) ==
    IF g.fail
    THEN [ok |-> FALSE, node |-> TextNode(<<>>), cursor |-> cursor, w |-> r.w]
    ELSE [ok |-> TRUE,
          node |-> [name |-> "a", lid |-> Len(r.w.links) + 1,
                    children |-> IF r.nodes = <<>> THEN <<TextNode(href)>> ELSE r.nodes],
          cursor |-> g.cursor + 1,
          w |-> [r.w EXCEPT !.links = Append(@, [name |-> "a", href |-> href])]]

\* the parse of 'a': r is parse_inline's result for the link text
ParseLink(text, cursor, r) ==
    Let(grab(text, r.cursor, _bracket, 2, FALSE), LAMBDA g :
        ParseLinkEnd(cursor, r, g, noesc(g.txt)))

\* the end of the parse of 'img': g1 and g2 are the grabs of alt and src
ParseImageEnd(cursor, g1, g2, w) ==
    IF g1.fail \/ g2.fail
    THEN [ok |-> FALSE, node |-> TextNode(<<>>), cursor |-> cursor, w |-> w]
    ELSE [ok |-> TRUE,
          node |-> [name |-> "img", lid |-> Len(w.links) + 1],
          cursor |-> g2.cursor + 1,
          w |-> [w EXCEPT !.links = Append(@, [name |-> "img",
                                               src |-> noesc(g2.txt),
                                               alt |-> noesc(g1.txt)])]]

ParseImage(text, cursor, w) ==
    Let(grab(text, cursor + 2, _start_href, 0, FALSE), LAMBDA g1 :
        ParseImageEnd(cursor, g1, grab(text, g1.cursor, _bracket, 2, FALSE), w))

\* first.parse(state, parse_inline) for the parser P.  The result is
\* [ok, node, cursor, w]; w carries footnote_def.cites and href_def.links.
ParseWith(P, text, cursor, w) ==
    CASE P.kind = "delimited" ->
           ParseDelimited(P, parse_inline(text, cursor + Len(P.startsWith), P.endsWith, w))
      [] P.kind = "capture" ->
           ParseCapture(P, grab(text, cursor + Len(P.startsWith), P.endsWith, 0, TRUE), w)
      [] P.kind = "cite" ->
           ParseCite(P, grab(text, cursor + Len(P.startsWith), P.endsWith, 0, TRUE), w)
      [] P.kind = "a" ->
           ParseLink(text, cursor, parse_inline(text, cursor + 1, _start_href, w))
      [] P.kind = "img" ->
           ParseImage(text, cursor, w)

InlineParse(p, text, cursor, w) == ParseWith(inlineparsers[p], text, cursor, w)

\* lines 370-388: r is what first.parse returned at cursor
InlineAfterParse(text, cursor, ender, cur, ast, r) ==
    IF r.ok
    THEN InlineLoop(text, r.cursor, ender, cur, Append(ast, r.node), r.w)
    ELSE InlineLoop(text, cursor + 1, ender, cur,
                    Append(ast, TextNode(noesc(<<At(text, cursor)>>))), r.w)

\* lines 370-389: n is the nearest match, cursor2 the cursor moved to it,
\* ast2 the nodes with the text before it, cur the parsers kept
InlineAtMatch(text, cursor2, ender, cur, ast2, w, n) ==
    IF n.first = 0
    THEN [nodes |-> ast2, cursor |-> cursor2, w |-> w]
    ELSE InlineAfterParse(text, cursor2, ender, cur, ast2,
                          InlineParse(n.first, text, cursor2, w))

\* lines 363-369: the parsers with no match after the cursor are dropped,
\* the text between the cursor and the nearest match is pushed
InlineText(text, cursor, ender, cur, ast, w, n) ==
    IF n.idx > cursor
    THEN InlineAtMatch(text, n.idx, ender, Prune(text, cursor, cur),
                       Append(ast, TextNode(noesc(Slice(text, cursor, n.idx)))), w, n)
    ELSE InlineAtMatch(text, cursor, ender, Prune(text, cursor, cur), ast, w, n)

\* one round of `while (state.cursor < state.text.length)` and the rounds
\* after it; cur is currentparsers, ast the nodes pushed so far
InlineLoop(text, cursor, ender, cur, ast, w) ==
    IF ~(cursor < Len(text)) THEN [nodes |-> ast, cursor |-> cursor, w |-> w]
    ELSE InlineText(text, cursor, ender, cur, ast, w,
                    Nearest(text, cursor, cur, 1, EnderIndexOf(ender, text, cursor), 0))

\* lines 391-393: every node of the result gets type 'inline'
MarkAll(r) ==
    [nodes |-> [i \in 1..Len(r.nodes) |-> MarkInline(r.nodes[i])],
     cursor |-> r.cursor, w |-> r.w]

\* parse_inline(state, endsWith) with state = {text, cursor}
parse_inline(text, cursor, ender, w) ==
    MarkAll(InlineLoop(text, cursor, ender, AllParsers, <<>>, w))


\* ------------------------------------------------------------------------
\* Character classes of the regular expressions
\* ------------------------------------------------------------------------
Digits == {"0", "1", "2", "3", "4", "5", "6", "7", "8", "9"}
LowerLetters ==
    {"a", "b", "c", "d", "e", "f", "g", "h", "i", "j", "k", "l", "m", "n", "o", "p", "q", "r", "s", "t", "u", "v", "w", "x", "y", "z"}
UpperLetters ==
    {"A", "B", "C", "D", "E", "F", "G", "H", "I", "J", "K", "L", "M", "N", "O", "P", "Q", "R", "S", "T", "U", "V", "W", "X", "Y", "Z"}
Letters == LowerLetters \cup UpperLetters
AlphaNum == Letters \cup Digits
RomanChars == {"m", "c", "l", "x", "i", "v", "M", "C", "L", "X", "I", "V"}

\* String.prototype.toLowerCase on the letters of the html_groups openers
toLowerCase(t) ==
    LET m == ("S" :> "s") @@ ("C" :> "c") @@ ("R" :> "r") @@ ("I" :> "i") @@ ("P" :> "p") @@ ("T" :> "t") @@ ("H" :> "h") @@ ("E" :> "e") @@ ("A" :> "a") @@ ("D" :> "d") @@ ("O" :> "o") @@ ("Y" :> "y")
    IN  [i \in 1..Len(t) |-> IF t[i] \in DOMAIN m THEN m[t[i]] ELSE t[i]]

\* length of the longest prefix of t made of characters of class C
RECURSIVE Run(_, _)
Run(t, C) == IF t # <<>> /\ t[1] \in C THEN 1 + Run(Tail(t), C) ELSE 0

\* '' + n for a number n >= 0
RECURSIVE ToStr(_)
ToStr(n) ==
    LET d == <<"0", "1", "2", "3", "4", "5", "6", "7", "8", "9">>
    IN  IF n < 10 THEN <<d[n + 1]>> ELSE ToStr(n \div 10) \o <<d[(n % 10) + 1]>>

\* line.indexOf(p) # -1
Contains(t, p) == \E i \in 0..(Len(t) - Len(p)) : StartsWithAt(t, p, i)

\* line.split(sep) for a one-character separator
RECURSIVE split(_, _)
split(t, sep) ==
    LET c == {i \in 1..Len(t) : t[i] = sep}
    IN  IF c = {} THEN <<t>>
        ELSE LET i == SetMin(c)
             IN  <<SubSeq(t, 1, i - 1)>> \o split(SubSeq(t, i + 1, Len(t)), sep)

\* object lookup obj[key]: the value, or Undefined
Undefined == [undefined |-> TRUE]
Has(obj, key) == key \in DOMAIN obj
Put(obj, key, val) == (key :> val) @@ obj

\* ------------------------------------------------------------------------
\* Document-scoped state: footnote_def.defs/cites, href_def.defs/links,
\* config; err is the exception thrown, if any
\* ------------------------------------------------------------------------
NoError == "none"

World0 ==
    [cites |-> <<>>, links |-> <<>>, fdefs |-> <<>>, hdefs |-> <<>>,
     config |-> <<>>, err |-> NoError]

Throw(w, e) == [w EXCEPT !.err = e]

\* predicate which detects blank lines
blankline(line) == line = <<>>

\* predicate which detects indented lines
indented(line) == StartsWith(line, <<" ">>)

\* number of leading lines grablines(lines, predicate) takes off lines
grabcount(lines, predicate(_)) ==
    LET stop == {i \in 1..Len(lines) : ~predicate(lines[i])}
    IN  IF stop = {} THEN Len(lines) ELSE SetMin(stop) - 1

Drop(lines, n) == SubSeq(lines, n + 1, Len(lines))
Take(lines, n) == SubSeq(lines, 1, n)

Fail(lines, w) == [ok |-> FALSE, node |-> [name |-> "omit"], lines |-> lines, w |-> w]
Success(node, lines, w) == [ok |-> TRUE, node |-> node, lines |-> lines, w |-> w]



\* ------------------------------------------------------------------------
\* Block parsers.  Each Parse_x(lines, w) is the parse method of the block
\* parser x: [ok, node, lines, w] with lines the line array after the call.
\* ------------------------------------------------------------------------
RECURSIVE parse_blocks(_, _)
RECURSIVE BlockLoop(_)
RECURSIVE BlockStep(_)
RECURSIVE TryBlockParsers(_, _, _)
RECURSIVE BlockParse(_, _, _)
RECURSIVE ParseItems(_, _)

\* header: lines[0].match(/^#{1,6} /)?.[0].length, 0 when there is no match
HeaderPrefixLen(line) ==
    LET n == Run(line, {"#"})
    IN  IF n >= 1 /\ n <= 6 /\ Len(line) > n /\ line[n + 1] = " " THEN n + 1 ELSE 0

\* line.replace(/#+$/, '')
RECURSIVE StripTrailingHashes(_)
StripTrailingHashes(t) ==
    IF t # <<>> /\ t[Len(t)] = "#"
    THEN StripTrailingHashes(SubSeq(t, 1, Len(t) - 1))
    ELSE t

\* 'h' + (prefix.length - 1)
hname(k) == <<"h1", "h2", "h3", "h4", "h5", "h6">>[k]

Parse_header(lines, w) ==
    Let(HeaderPrefixLen(lines[1]), LAMBDA n :
        IF n = 0 THEN Fail(lines, w)
        ELSE Let(parse_inline(StripTrailingHashes(SliceFrom(lines[1], n)), 0, NoEnder, w),
                 LAMBDA r : Success([name |-> hname(n - 1), children |-> r.nodes],
                                    Tail(lines), r.w)))

\* blockquote
\* line.replace(/^> ?/, '')
Unquote(line) ==
    IF StartsWith(line, <<">", " ">>) THEN SliceFrom(line, 2) ELSE SliceFrom(line, 1)

Parse_blockquote(lines, w) ==
    Let(grabcount(lines, LAMBDA line : StartsWith(line, <<">">>)), LAMBDA k :
        IF k = 0 THEN Fail(lines, w)
        ELSE Let(parse_blocks([i \in 1..k |-> Unquote(lines[i])], w), LAMBDA r :
                 Success([name |-> "blockquote", children |-> r.ast], Drop(lines, k), r.w)))

\* indented_codeblock
Parse_indented_codeblock(lines, w) ==
    Let(grabcount(lines, LAMBDA line : StartsWith(line, <<" ", " ", " ", " ">>)), LAMBDA k :
        IF k = 0 THEN Fail(lines, w)
        ELSE Success([name |-> "codeblock",
                      children |-> [i \in 1..k |-> TextNode(SliceFrom(lines[i], 4))]],
                     Drop(lines, k), w))

\* fenced_codeblock.  fencehandler has the keys config, verbatim and omit;
\* the call fencehandler[type]?.parse?.(children) evaluates the undeclared
\* name `children`, which throws a ReferenceError before the handler runs.
FENCE == <<BT, BT, BT>>
fencehandler ==
    { <<"c", "o", "n", "f", "i", "g">>,
      <<"v", "e", "r", "b", "a", "t", "i", "m">>,
      <<"o", "m", "i", "t">> }

\* line.replace(/^\\```/, '```')
Unfence(line) == IF StartsWith(line, <<BS>> \o FENCE) THEN SliceFrom(line, 1) ELSE line

\* the fenced block of type `type`: the k lines of rest before the closing
\* fence (or the end of the lines)
FencedBlock(type, rest, k, w) ==
    IF type \in fencehandler
    THEN Success([name |-> "omit"], Drop(rest, k + 1), Throw(w, "ReferenceError"))
    ELSE Success([name |-> "codeblock", type |-> type,
                  children |-> [i \in 1..k |-> TextNode(Unfence(rest[i]))]],
                 Drop(rest, k + 1), w)

Parse_fenced_codeblock(lines, w) ==
    IF ~StartsWith(lines[1], FENCE) THEN Fail(lines, w)
    ELSE FencedBlock(SliceFrom(lines[1], 3), Tail(lines),
                     grabcount(Tail(lines), LAMBDA line : ~StartsWith(line, FENCE)), w)

\* ---- lists ----
\* unordered_list.re = /^[+*-] /
UnorderedPrefixLen(line) ==
    IF Len(line) >= 2 /\ line[1] \in {"+", "*", "-"} /\ line[2] = " " THEN 2 ELSE 0

\* ordered_list.re = /^([0-9]+|[a-zA-Z]|[mclxivMCLXIV]+)[).] /
OrderedPrefixLen(line) ==
    LET closes(n) == /\ n >= 1
                     /\ Len(line) >= n + 2
                     /\ line[n + 1] \in {")", "."}
                     /\ line[n + 2] = " "
        d == Run(line, Digits)
        r == Run(line, RomanChars)
    IN  IF closes(d) THEN d + 2
        ELSE IF line # <<>> /\ line[1] \in Letters /\ closes(1) THEN 3
        ELSE IF closes(r) THEN r + 2
        ELSE 0

\* getstyle(prefix) of ordered_list
getstyle(prefix) ==
    LET endmarker == prefix[Len(prefix) - 1]
        c == prefix[1]
        orderstyle ==
            IF c \in Digits THEN "1"
            ELSE IF c \in {"I", "V", "M", "X", "L"} THEN "I"
            ELSE IF c \in {"i", "v", "m", "x", "l"} THEN "i"
            ELSE IF c \in {"A", "B", "C", "D", "E", "F", "G", "H", "I", "J", "K"} THEN "A"
            ELSE "a"
    IN  <<orderstyle, endmarker>>

\* the style a prefix is checked against: the marker character of an
\* unordered list, getstyle(prefix) of an ordered list
StyleOf(kind, prefix) == IF kind = "ul" THEN <<prefix[1]>> ELSE getstyle(prefix)

PrefixLen(kind, line) ==
    IF kind = "ul" THEN UnorderedPrefixLen(line) ELSE OrderedPrefixLen(line)

\* checkmarker: style is <<>> until the first item set it
checkmarker(kind, style, prefix) == style = <<>> \/ StyleOf(kind, prefix) = style

\* list_item(lines, regex, check): the item {prefix, lines} and the lines left
NoItem(lines) == [ok |-> FALSE, item |-> [prefix |-> <<>>, lines |-> <<>>], lines |-> lines]

\* the item of the first line and the k indented or blank lines after it
TakeItem(lines, prefix, k) ==
    [ok |-> TRUE,
     item |-> [prefix |-> prefix, lines |-> Take(lines, k + 1)],
     lines |-> Drop(lines, k + 1)]

list_item(lines, kind, style) ==
    Let(IF lines = <<>> THEN 0 ELSE PrefixLen(kind, lines[1]), LAMBDA n :
        IF n > 0 /\ checkmarker(kind, style, Take(lines[1], n))
        THEN TakeItem(lines, Take(lines[1], n),
                      grabcount(Tail(lines), LAMBDA line : indented(line) \/ blankline(line)))
        ELSE NoItem(lines))

\* while ((item = list_item(lines, this.re, checkmarker))) { ... }
RECURSIVE CollectItems(_, _, _, _)
CollectItems(lines, kind, style, items) ==
    Let(list_item(lines, kind, style), LAMBDA r :
        IF r.ok
        THEN CollectItems(r.lines, kind,
                          IF style = <<>> THEN StyleOf(kind, r.item.prefix) ELSE style,
                          Append(items, r.item))
        ELSE [items |-> items, lines |-> lines, style |-> style])

\* deblank: move blank lines from the last list item back onto the input
RECURSIVE deblankLast(_, _)
deblankLast(itemlines, lines) ==
    IF itemlines # <<>> /\ blankline(itemlines[Len(itemlines)])
    THEN deblankLast(SubSeq(itemlines, 1, Len(itemlines) - 1),
                     <<itemlines[Len(itemlines)]>> \o lines)
    ELSE [itemlines |-> itemlines, lines |-> lines]

deblank(items, lines) ==
    IF Len(items) > 1
    THEN Let(deblankLast(items[Len(items)].lines, lines), LAMBDA r :
             [items |-> [items EXCEPT ![Len(items)].lines = r.itemlines],
              lines |-> r.lines])
    ELSE [items |-> items, lines |-> lines]

\* the dedent length of one item: the prefix length, lowered to the least
\* indentation of the non-blank lines after the first
\* the indentations of the non-blank lines of an item after the first
Indents(item) ==
    {LeadingSpaces(item.lines[i]) :
        i \in {j \in 2..Len(item.lines) : ~blankline(item.lines[j])}}

\* Math.min(len, indent) over the indentations ind
LeastIndent(len, ind) == IF ind = {} THEN len ELSE Min2(len, SetMin(ind))

\* len == 0 ? 1 : len
AtLeastOne(len) == IF len = 0 THEN 1 ELSE len

\* the least indentation alone, 2 where no line is indented
DedentLenOfLines(item) == IF Indents(item) = {} THEN 2 ELSE SetMin(Indents(item))

DedentLen(item) == AtLeastOne(LeastIndent(Len(item.prefix), Indents(item)))

\* the lines of an item dedented by len, the first by the prefix
dedentBy(item, len) ==
    [item EXCEPT !.lines =
        [i \in 1..Len(item.lines) |->
            IF i = 1 THEN SliceFrom(item.lines[1], Len(item.prefix))
            ELSE StripSpaces(item.lines[i], len)]]

dedentItem(item) == dedentBy(item, DedentLen(item))

dedent(items) == [i \in 1..Len(items) |-> dedentItem(items[i])]

\* checkloose
isloose(items) ==
    \E i \in 1..Len(items) : \E j \in 1..Len(items[i].lines) : blankline(items[i].lines[j])

checkloose(items) ==
    IF isloose(items)
    THEN [i \in 1..Len(items) |->
            IF ~blankline(items[i].lines[Len(items[i].lines)])
            THEN [items[i] EXCEPT !.lines = Append(@, <<>>)]
            ELSE items[i]]
    ELSE items

\* items.map(parse_blocks), then items.map((children) => ({name: 'li', children}))
ParseItems(items, w) ==
    IF items = <<>> \/ w.err # NoError THEN [lis |-> <<>>, w |-> w]
    ELSE Let(parse_blocks(items[1].lines, w), LAMBDA r :
         Let(ParseItems(Tail(items), r.w), LAMBDA rest :
             [lis |-> <<[name |-> "li", children |-> r.ast]>> \o rest.lis, w |-> rest.w]))

ulclass(marker) ==
    CASE marker = "*" -> "star-list"
      [] marker = "+" -> "plus-list"
      [] marker = "-" -> "minus-list"

\* items[0].prefix.slice(0, -2)
StartOf(prefix) == Take(prefix, Len(prefix) - 2)

\* the list node: c is what the item loop collected, r the parsed items
ListNode(kind, c, lines, r) ==
    IF kind = "ul"
    THEN Success([name |-> "ul",
                  attributes |-> [class |-> ulclass(c.style[1])],
                  children |-> r.lis], lines, r.w)
    ELSE Success([name |-> "ol",
                  attributes |-> [start |-> StartOf(c.items[1].prefix), type |-> c.style[1]],
                  children |-> r.lis], lines, r.w)

\* unordered_list.parse and ordered_list.parse
Parse_list(kind, lines, w) ==
    Let(CollectItems(lines, kind, <<>>, <<>>), LAMBDA c :
        IF c.items = <<>> THEN Fail(lines, w)
        ELSE Let(deblank(c.items, c.lines), LAMBDA d :
                 ListNode(kind, c, d.lines,
                          ParseItems(checkloose(dedent(d.items)), w))))

Parse_unordered_list(lines, w) == Parse_list("ul", lines, w)
Parse_ordered_list(lines, w) == Parse_list("ol", lines, w)


\* a rule node with an empty children sequence
Parse_horizontal_rule_children(lines, w) ==
    IF StartsWith(lines[1], <<"*", "*", "*">>)
       \/ StartsWith(lines[1], <<"-", "-", "-">>)
       \/ StartsWith(lines[1], <<"_", "_", "_">>)
    THEN Success([name |-> "hr", children |-> <<>>], Tail(lines), w)
    ELSE Fail(lines, w)

\* horizontal_rule
Parse_horizontal_rule(lines, w) ==
    IF \/ StartsWith(lines[1], <<"*", "*", "*">>)
       \/ StartsWith(lines[1], <<"-", "-", "-">>)
       \/ StartsWith(lines[1], <<"_", "_", "_">>)
    THEN Success([name |-> "hr"], Tail(lines), w)
    ELSE Fail(lines, w)

\* footnote_def.re = /^\[\^[a-zA-Z0-9]+\]: */ : the length of the match, or 0
FootnotePrefixLen(line) ==
    Let(Run(SliceFrom(line, 2), AlphaNum), LAMBDA n :
        IF StartsWith(line, <<"[", "^">>) /\ n >= 1
           /\ StartsWithAt(line, <<"]", ":">>, 2 + n)
        THEN 4 + n + Run(SliceFrom(line, 4 + n), {" "})
        ELSE 0)

\* footnote_def.parse: the definition is stored as the lines of an ordered
\* list item '1) ...' whose continuation lines are indented by three spaces
\* prefix.trim().slice(2, -2) for the prefix of length n of line
FootnoteLabel(line, n) == Slice(line, 2, Len(trimRight(Take(line, n))) - 2)

\* the k + 1 lines of a definition, dedented by the prefix length n, as the
\* lines of the item '1) ...'
FootnoteItem(lines, n, k) ==
    [i \in 1..(k + 1) |->
        IF i = 1
        THEN <<"1", ")", " ">> \o SliceFrom(StripSpaces(lines[1], n), n)
        ELSE <<" ", " ", " ">> \o StripSpaces(lines[i], n)]

\* the definition of k + 1 lines whose prefix has length n
FootnoteDef(lines, w, n, k) ==
    Success([name |-> "omit"], Drop(lines, k + 1),
            [w EXCEPT !.fdefs = Put(@, FootnoteLabel(lines[1], n), FootnoteItem(lines, n, k))])

Parse_footnote_def(lines, w) ==
    Let(FootnotePrefixLen(lines[1]), LAMBDA n :
        IF n = 0 THEN Fail(lines, w)
        ELSE FootnoteDef(lines, w, n,
                 grabcount(Tail(lines), LAMBDA line : blankline(line) \/ indented(line))))

\* href_def.re = /^\[[A-Za-z0-9]+\]: */ : the length of the match, or 0
HrefPrefixLen(line) ==
    Let(Run(SliceFrom(line, 1), AlphaNum), LAMBDA n :
        IF StartsWith(line, <<"[">>) /\ n >= 1
           /\ StartsWithAt(line, <<"]", ":">>, 1 + n)
        THEN 3 + n + Run(SliceFrom(line, 3 + n), {" "})
        ELSE 0)

\* prefix.slice(1).replace(/\]: *$/, '')
HrefLabel(line) == Slice(line, 1, 1 + Run(SliceFrom(line, 1), AlphaNum))

Parse_href_def(lines, w) ==
    Let(HrefPrefixLen(lines[1]), LAMBDA n :
        IF n = 0 THEN Fail(lines, w)
        ELSE Success([name |-> "omit"], Tail(lines),
                     [w EXCEPT !.hdefs = Put(@, HrefLabel(lines[1]), SliceFrom(lines[1], n))]))

\* html_groups.re = /^<(script|head|!--|!doctype)/i : the lower-cased match
html_openers ==
    << <<"<", "s", "c", "r", "i", "p", "t">>,
       <<"<", "h", "e", "a", "d">>,
       <<"<", "!", "-", "-">>,
       <<"<", "!", "d", "o", "c", "t", "y", "p", "e">> >>

\* the opener number i when c has it, or <<>> (no match)
OpenerOf(c) == IF c = {} THEN <<>> ELSE html_openers[SetMin(c)]

HtmlGroupPrefix(line) ==
    OpenerOf({i \in 1..Len(html_openers) :
                 /\ Len(line) >= Len(html_openers[i])
                 /\ toLowerCase(Take(line, Len(html_openers[i]))) = html_openers[i]})

\* the tag which closes the group opened by prefix
close_tag(prefix) ==
    IF prefix = <<"<", "!", "-", "-">> THEN <<"-", "-", ">">>
    ELSE IF prefix = <<"<", "!", "d", "o", "c", "t", "y", "p", "e">> THEN <<">">>
    ELSE <<"<", "/">> \o SliceFrom(prefix, 1) \o <<">">>

\* the group: the k lines before the closing line, and the closing line.
\* children.push(lines.shift()) pushes undefined when no line is left
HtmlGroup(lines, w, k) ==
    Success([name |-> "verbatim",
             children |-> Append(Take(lines, k),
                                 IF k < Len(lines) THEN lines[k + 1] ELSE Undefined)],
            Drop(lines, k + 1), w)

Parse_html_groups(lines, w) ==
    Let(HtmlGroupPrefix(lines[1]), LAMBDA prefix :
        IF prefix = <<>> THEN Fail(lines, w)
        ELSE HtmlGroup(lines, w,
                 grabcount(lines, LAMBDA line : ~Contains(line, close_tag(prefix)))))

\* html_tags.re = /^<\/?[^>]*>$/
IsHtmlTag(line) ==
    /\ Len(line) >= 2
    /\ line[1] = "<"
    /\ line[Len(line)] = ">"
    /\ \A i \in 2..(Len(line) - 1) : line[i] # ">"

Parse_html_tags(lines, w) ==
    IF IsHtmlTag(lines[1])
    THEN Success([name |-> "verbatim", children |-> <<lines[1]>>], Tail(lines), w)
    ELSE Fail(lines, w)

\* ---- table ----
\* c && c.match(/^ *:?-+:? *$/)
\* t without a leading colon
SkipColon(t) == SliceFrom(t, IF StartsWith(t, <<":">>) THEN 1 ELSE 0)

\* t is made of spaces only
AllSpaces(t) == Run(t, {" "}) = Len(t)

\* t matches /^-+:? *$/
IsDashes(t) == Run(t, {"-"}) >= 1 /\ AllSpaces(SkipColon(SliceFrom(t, Run(t, {"-"}))))

IsAlignCell(c) == c # <<>> /\ IsDashes(SkipColon(SliceFrom(c, Run(c, {" "}))))

\* c.match(/^ *:-/) and c.match(/-: *$/)
AlignLeft(c) == StartsWith(SliceFrom(c, Run(c, {" "})), <<":", "-">>)
AlignRight(c) == EndsWith(trimRight(c), <<"-", ":">>)

\* the alignment of an alignment cell
AlignName(L, R) ==
    IF L /\ R THEN "center" ELSE IF L THEN "left" ELSE IF R THEN "right" ELSE ""

AlignOf(c) == AlignName(AlignLeft(c), AlignRight(c))

\* line.split('|').slice(1, -1)
Inner(p) == SubSeq(p, 2, Len(p) - 1)

Cols(line) == Inner(split(line, "|"))

RECURSIVE ParseCells(_, _)
ParseCells(cols, w) ==
    IF cols = <<>> THEN [cells |-> <<>>, w |-> w]
    ELSE Let(parse_inline(cols[1], 0, NoEnder, w), LAMBDA r :
         Let(ParseCells(Tail(cols), r.w), LAMBDA rest :
             [cells |-> <<[name |-> "td", children |-> r.nodes]>> \o rest.cells,
              w |-> rest.w]))

\* table.row(line, parse_inline, number): kind is "none" (no row),
\* "align" (an array of alignments) or "tr" (a row node)
\* the row node of the columns cols: r is the parse of the cells
RowNode(r) == [kind |-> "tr", node |-> [name |-> "tr", children |-> r.cells], w |-> r.w]

row(lines, number, w) ==
    IF lines = <<>> \/ ~StartsWith(lines[1], <<"|">>)
    THEN [kind |-> "none", w |-> w]
    ELSE Let(Cols(lines[1]), LAMBDA cols :
             IF number <= 2 /\ \A i \in 1..Len(cols) : IsAlignCell(cols[i])
             THEN [kind |-> "align",
                   alignment |-> [i \in 1..Len(cols) |-> AlignOf(cols[i])], w |-> w]
             ELSE RowNode(ParseCells(cols, w)))

\* while ((row = this.row(lines[0], parse_inline, rowcount + 1))) { ... }
\* alignment is undefined while alignedrow = -1
RECURSIVE TableRows(_, _, _, _, _, _)
TableRows(lines, rowcount, rows, alignment, alignedrow, w) ==
    Let(row(lines, rowcount + 1, w), LAMBDA r :
        IF r.kind = "none"
        THEN [lines |-> lines, rows |-> rows, alignment |-> alignment,
              alignedrow |-> alignedrow, w |-> w]
        ELSE IF r.kind = "align"
        THEN TableRows(Tail(lines), rowcount + 1, rows, r.alignment, rowcount + 1, r.w)
        ELSE TableRows(Tail(lines), rowcount + 1, Append(rows, r.node), alignment,
                       alignedrow, r.w))

\* row.children[i].attributes = {style: `text-align:${alignment[i]}`}
AlignRow(tr, alignment) ==
    [tr EXCEPT !.children =
        [i \in 1..Len(tr.children) |->
            IF i <= Len(alignment) /\ alignment[i] # ""
            THEN [attributes |-> [style |-> <<"text-align:", alignment[i]>>]]
                 @@ tr.children[i]
            ELSE tr.children[i]]]

\* HeaderRow with the cells left as they are
KeepCells(tr) == tr

HeaderRow(tr) ==
    [tr EXCEPT !.children = [i \in 1..Len(tr.children) |-> [tr.children[i] EXCEPT !.name = "th"]]]

\* lines 998-1016: the cells of every row aligned, the cells of the first
\* row renamed th when the alignment row was the second row
AlignedRows(t) ==
    [i \in 1..Len(t.rows) |->
        IF i = 1 /\ t.alignedrow = 2
        THEN HeaderRow(AlignRow(t.rows[i], t.alignment))
        ELSE AlignRow(t.rows[i], t.alignment)]

\* lines 1017-1030: thead takes the first row, tbody the rows after it
WithHead(rows) ==
    << [name |-> "thead", children |-> <<rows[1]>>],
       [name |-> "tbody", children |-> Tail(rows)] >>

\* lines 995-1034: t is what the row loop collected
TableNode(t) ==
    IF t.rows = <<>> THEN Fail(t.lines, t.w)
    \* alignment.length of an undefined alignment
    ELSE IF t.alignedrow = -1
    THEN Success([name |-> "omit"], t.lines, Throw(t.w, "TypeError"))
    ELSE IF Len(t.alignment) > 0
    THEN Success([name |-> "table", children |-> WithHead(AlignedRows(t))], t.lines, t.w)
    ELSE Success([name |-> "table",
                  children |-> << [name |-> "tbody", children |-> t.rows] >>],
                 t.lines, t.w)

Parse_table(lines, w) == TableNode(TableRows(lines, 0, <<>>, <<>>, -1, w))


\* ------------------------------------------------------------------------
\* Block engine
\* ------------------------------------------------------------------------
\* the registration order of the block parsers
blockparsers ==
    << "header", "blockquote", "indented_codeblock", "fenced_codeblock",
       "unordered_list", "ordered_list", "horizontal_rule", "footnote_def",
       "href_def", "html_groups", "html_tags", "table" >>

\* bp.parse(lines, {parse_blocks, parse_inline})
BlockParse(bp, lines, w) ==
    CASE bp = "header" -> Parse_header(lines, w)
      [] bp = "blockquote" -> Parse_blockquote(lines, w)
      [] bp = "indented_codeblock" -> Parse_indented_codeblock(lines, w)
      [] bp = "fenced_codeblock" -> Parse_fenced_codeblock(lines, w)
      [] bp = "unordered_list" -> Parse_unordered_list(lines, w)
      [] bp = "ordered_list" -> Parse_ordered_list(lines, w)
      [] bp = "horizontal_rule" -> Parse_horizontal_rule(lines, w)
      [] bp = "footnote_def" -> Parse_footnote_def(lines, w)
      [] bp = "href_def" -> Parse_href_def(lines, w)
      [] bp = "html_groups" -> Parse_html_groups(lines, w)
      [] bp = "html_tags" -> Parse_html_tags(lines, w)
      [] bp = "table" -> Parse_table(lines, w)

\* the block parsers tried from the last registered to the first
RECURSIVE TryBlockParsersBackwards(_, _, _)
TryBlockParsersBackwards(i, lines, w) ==
    IF i > Len(blockparsers) THEN Fail(lines, w)
    ELSE Let(BlockParse(blockparsers[Len(blockparsers) + 1 - i], lines, w), LAMBDA r :
             IF r.ok \/ r.w.err # NoError THEN r
             ELSE TryBlockParsersBackwards(i + 1, lines, w))

\* for (let bp of blockparsers) { if ((node = bp.parse(lines, ...))) break }
\* from parser number i on
TryBlockParsers(i, lines, w) ==
    IF i > Len(blockparsers) THEN Fail(lines, w)
    ELSE Let(BlockParse(blockparsers[i], lines, w), LAMBDA r :
             IF r.ok \/ r.w.err # NoError THEN r
             ELSE TryBlockParsers(i + 1, r.lines, r.w))

\* every flushed text wrapped in a p node
PushNodesWrapped(name, lines, ast, r) ==
    [lines |-> lines,
     text |-> <<>>,
     ast |-> Append(ast, [name |-> "p", children |-> r.nodes]),
     w |-> r.w]

\* push_text(name) on the loop state st = [lines, text, ast, w]
\* lines 268-275: r is the inline parse of the text
PushNodes(name, lines, ast, r) ==
    [lines |-> lines,
     text |-> <<>>,
     ast |-> IF name = "p"
             THEN Append(ast, [name |-> "p", children |-> r.nodes])
             ELSE ast \o r.nodes,
     w |-> r.w]

\* lines 262-275: text and lines after the blank line went back to lines
PushText(name, lines, text, ast, w) ==
    IF text = <<>> THEN [lines |-> lines, text |-> text, ast |-> ast, w |-> w]
    ELSE PushNodes(name, lines, ast, parse_inline(Join(text, <<NL>>), 0, NoEnder, w))

push_text(name, st) ==
    IF name = "p"
    THEN PushText(name, <<st.text[Len(st.text)]>> \o st.lines,
                  SubSeq(st.text, 1, Len(st.text) - 1), st.ast, st.w)
    ELSE PushText(name, st.lines, st.text, st.ast, st.w)

\* ast.push(node) after push_text
PushNode(st, node) == [st EXCEPT !.ast = Append(@, node)]

\* the loop with the text flushed after every parser that succeeds, an
\* omit node included
AfterBlockParsersFlushing(t, s1) ==
    IF t.w.err # NoError THEN s1
    ELSE IF t.ok
    THEN IF t.node.name # "omit"
         THEN PushNode(push_text("textblock", s1), t.node)
         ELSE push_text("textblock", s1)
    ELSE IF s1.lines = <<>>
    THEN [s1 EXCEPT !.text = Append(@, <<>>)]
    ELSE IF blankline(s1.lines[1])
    THEN IF s1.text # <<>>
         THEN push_text("p", [s1 EXCEPT !.text = Append(@, s1.lines[1]),
                                        !.lines = Tail(@)])
         ELSE [s1 EXCEPT !.ast = Append(@, TextNode(<<>>)), !.lines = Tail(@)]
    ELSE [s1 EXCEPT !.text = Append(@, s1.lines[1]), !.lines = Tail(@)]

\* lines 212-244: t is what the block parsers returned, s1 the loop state
\* with the lines and the document state they left
AfterBlockParsers(t, s1) ==
    IF t.w.err # NoError THEN s1
    ELSE IF t.ok
    THEN IF t.node.name # "omit"
         THEN PushNode(push_text("textblock", s1), t.node)
         ELSE s1
    \* a failed parser may have emptied lines: lines[0] is undefined,
    \* which is not blank, and text.push(lines.shift()) pushes undefined,
    \* which text.join renders as the empty string
    ELSE IF s1.lines = <<>>
    THEN [s1 EXCEPT !.text = Append(@, <<>>)]
    ELSE IF blankline(s1.lines[1])
    THEN IF s1.text # <<>>
         THEN push_text("p", [s1 EXCEPT !.text = Append(@, s1.lines[1]),
                                        !.lines = Tail(@)])
         ELSE [s1 EXCEPT !.ast = Append(@, TextNode(<<>>)), !.lines = Tail(@)]
    ELSE [s1 EXCEPT !.text = Append(@, s1.lines[1]), !.lines = Tail(@)]

\* one round of `while (lines.length > 0)` of parse_blocks
BlockStep(st) ==
    Let(TryBlockParsers(1, st.lines, st.w), LAMBDA t :
        AfterBlockParsers(t, [st EXCEPT !.lines = t.lines, !.w = t.w]))

\* text.length > 0 && push_text('textblock') after the loop
BlockFinish(st) == IF st.text # <<>> THEN push_text("textblock", st) ELSE st

BlockLoop(st) ==
    IF st.w.err # NoError THEN st
    ELSE IF st.lines = <<>> THEN BlockFinish(st)
    ELSE BlockLoop(BlockStep(st))

\* the ast parse_blocks returns, and the document state after it
Parsed(st) == [ast |-> st.ast, w |-> st.w]

parse_blocks(lines, w) ==
    Parsed(BlockLoop([lines |-> lines, text |-> <<>>, ast |-> <<>>, w |-> w]))


\* ------------------------------------------------------------------------
\* Postprocessing
\* ------------------------------------------------------------------------
\* the loop `for (let cite of this.cites)` of footnote_def.postprocess:
\* tonumbers maps a label to its number, i is the next number
RECURSIVE NumberCites(_, _, _, _)
NumberCites(cites, k, tonumbers, i) ==
    IF k > Len(cites) THEN [cites |-> cites, tonumbers |-> tonumbers, i |-> i]
    ELSE IF ~Has(tonumbers, cites[k].key)
    THEN NumberCites([cites EXCEPT ![k] = [key |-> @.key, numbered |-> TRUE, number |-> i]],
                     k + 1, Put(tonumbers, cites[k].key, i), i + 1)
    ELSE NumberCites([cites EXCEPT ![k] = [key |-> @.key, numbered |-> TRUE,
                                           number |-> tonumbers[@.key]]],
                     k + 1, tonumbers, i)

\* the label numbered j: tonumbers with key and value switched
LabelOf(tonumbers, j) == CHOOSE key \in DOMAIN tonumbers : tonumbers[key] = j

\* defs.push(...this.defs[tonumbers[j]]) for j = 1 .. i - 1
RECURSIVE DefLines(_, _, _, _)
DefLines(fdefs, tonumbers, j, i) ==
    IF j >= i THEN <<>>
    ELSE fdefs[LabelOf(tonumbers, j)] \o DefLines(fdefs, tonumbers, j + 1, i)

\* lines 863-866: defs[0].children.forEach((c, i) => ... id: 'footnote_' + (i + 1))
WithIds(list) ==
    [list EXCEPT !.children =
        [k \in 1..Len(list.children) |->
            [attributes |-> [id |-> <<"footnote_">> \o ToStr(k)]] @@ list.children[k]]]

\* lines 862-872: r is parse_blocks' result for the definitions
AppendFootnotes(ast, r) ==
    IF r.w.err # NoError \/ r.ast = <<>> THEN [ast |-> ast, w |-> r.w]
    ELSE [ast |-> Append(ast, [name |-> "div",
                               attributes |-> [class |-> "footnotes"],
                               children |-> << <<WithIds(r.ast[1])>> \o Tail(r.ast) >>]),
          w |-> r.w]

\* lines 853-872: n is the numbering, w1 the document state with the
\* citations numbered
EmitFootnotes(ast, w1, n) ==
    \* spreading an undefined definition throws a TypeError
    IF \E j \in 1..(n.i - 1) : ~Has(w1.fdefs, LabelOf(n.tonumbers, j))
    THEN [ast |-> ast, w |-> Throw(w1, "TypeError")]
    ELSE AppendFootnotes(ast, parse_blocks(DefLines(w1.fdefs, n.tonumbers, 1, n.i), w1))

\* footnote_def.postprocess(ast, {parse_blocks})
footnote_postprocess(ast, w) ==
    Let(NumberCites(w.cites, 1, <<>>, 1), LAMBDA n :
        EmitFootnotes(ast, [w EXCEPT !.cites = n.cites], n))

\* this.defs[id] || id : an empty definition text is falsy
OrElse(defs, id) == IF Has(defs, id) /\ defs[id] # <<>> THEN defs[id] ELSE id

UndefinedKey == <<"u", "n", "d", "e", "f", "i", "n", "e", "d">>

\* href_def.postprocess(ast): one link of this.links
resolve_link(defs, node) ==
    IF node.name = "a" /\ node.href # <<>>
    THEN [node EXCEPT !.href = OrElse(defs, node.href)]
    ELSE IF node.name = "a"
    \* an <a> with an empty href gets src = this.defs[undefined] || undefined
    THEN IF Has(defs, UndefinedKey) /\ defs[UndefinedKey] # <<>>
         THEN [src |-> defs[UndefinedKey]] @@ node
         ELSE node
    ELSE [node EXCEPT !.src = OrElse(defs, node.src)]

href_postprocess(w) ==
    [w EXCEPT !.links = [k \in 1..Len(w.links) |-> resolve_link(w.hdefs, w.links[k])]]

\* ------------------------------------------------------------------------
\* The tree the printer sees.  The citation and link nodes of the tree are
\* the objects held in footnote_def.cites and href_def.links; the model
\* keeps their mutable fields in w and the index (cid, lid) in the tree.
\* ------------------------------------------------------------------------
RECURSIVE Resolve(_, _)
RECURSIVE ResolveNode(_, _)

Resolve(ast, w) == [k \in 1..Len(ast) |-> ResolveNode(ast[k], w)]

\* the fields of the node object n other than the model's index
Fields(n) == [k \in DOMAIN n \ {"cid", "lid"} |-> n[k]]

\* the attributes object of a link or image node
LinkAttributes(link) == [k \in DOMAIN link \ {"name"} |-> link[k]]

ResolveNode(n, w) ==
    IF n.name = "verbatim" THEN n
    ELSE IF n.name = "div"
    THEN [n EXCEPT !.children = <<Resolve(n.children[1], w)>>]
    ELSE IF "cid" \in DOMAIN n
    THEN LET c == w.cites[n.cid]
         IN  IF c.numbered
             THEN [key |-> ToStr(c.number),
                   attributes |-> [href |-> <<"#footnote_">> \o ToStr(c.number)],
                   children |-> <<TextNode(ToStr(c.number))>>] @@ Fields(n)
             ELSE [key |-> c.key, attributes |-> <<>>] @@ Fields(n)
    ELSE IF "lid" \in DOMAIN n
    THEN IF "children" \in DOMAIN n
         THEN [attributes |-> LinkAttributes(w.links[n.lid]),
               children |-> Resolve(n.children, w)] @@ Fields(n)
         ELSE [attributes |-> LinkAttributes(w.links[n.lid])] @@ Fields(n)
    ELSE IF "children" \in DOMAIN n
    THEN [n EXCEPT !.children = Resolve(@, w)]
    ELSE n

\* ------------------------------------------------------------------------
\* scratchmark(lines, printer)
\* ------------------------------------------------------------------------
\* .replace('\t', '    '): the first tab only
ReplaceFirstTab(t) ==
    LET c == {i \in 1..Len(t) : t[i] = "\t"}
    IN  IF c = {} THEN t
        ELSE LET i == SetMin(c)
             IN  SubSeq(t, 1, i - 1) \o <<" ", " ", " ", " ">> \o SubSeq(t, i + 1, Len(t))

\* .split(/\r?\n/)
SplitLines(t) ==
    LET p == split(t, NL)
    IN  [i \in 1..Len(p) |->
            IF i < Len(p) /\ EndsWith(p[i], <<"\r">>)
            THEN SubSeq(p[i], 1, Len(p[i]) - 1) ELSE p[i]]

\* the joining of line continuations
RECURSIVE JoinContinuations(_, _)
JoinContinuations(joined, lines) ==
    IF lines = <<>> THEN joined
    ELSE LET last == joined[Len(joined)]
         IN  IF EndsWith(last, <<BS>>)
             THEN JoinContinuations(
                      [joined EXCEPT ![Len(joined)] =
                          SubSeq(last, 1, Len(last) - 1) \o lines[1]],
                      Tail(lines))
             ELSE JoinContinuations(Append(joined, lines[1]), Tail(lines))

normalize(t) ==
    LET ls == SplitLines(ReplaceFirstTab(t))
        trimmed == [i \in 1..Len(ls) |-> trimRight(ls[i])]
        joined == JoinContinuations(<<trimmed[1]>>, Tail(trimmed))
    IN  [i \in 1..Len(joined) |-> trimRight(joined[i])]

\* (printer || html_printer)(ast).  The printers are outside the model:
\* the value html_printer or a caller's printer returns is kept as the
\* printer's name and the tree it was given; (tree) => tree returns the tree.
NoPrinter == "undefined"
Printers == {NoPrinter, "identity", "custom"}

Apply(printer, tree) ==
    IF printer = "identity" THEN [returned |-> "ast", ast |-> tree]
    ELSE [returned |-> "output", of |-> printer, ast |-> tree]

\* print with the tree itself returned when there is no printer
print_tree_by_default(printer, tree) ==
    Apply(IF printer = NoPrinter THEN "identity" ELSE printer, tree)

print(printer, tree) ==
    Apply(IF printer = NoPrinter THEN "html_printer" ELSE printer, tree)

\* typeof html == 'string'
IsString(printer) == printer # "identity"


\* ------------------------------------------------------------------------
\* ParserCollection: an array of parser objects with the lookup .byname
\* ------------------------------------------------------------------------
\* new ParserCollection()
EmptyCollection == [list |-> <<>>, byname |-> <<>>]

\* this.findIndex((b) => b.name == before): 0-based, -1 when there is none
findIndex(list, before) ==
    IF \A i \in 1..Len(list) : list[i].name # before THEN -1
    ELSE SetMin({i \in 1..Len(list) : list[i].name = before}) - 1

\* this.splice(idx, 0, parser)
splice(list, idx, parser) ==
    SubSeq(list, 1, idx) \o <<parser>> \o SubSeq(list, idx + 1, Len(list))

\* the optional argument `before`: not given, or a string
NotGiven == [given |-> FALSE, name |-> ""]
Named(name) == [given |-> TRUE, name |-> name]

\* if (before): undefined and the empty string are falsy
Truthy(before) == before.given /\ before.name # ""

\* the collection after this.splice or this.push, then this.byname[...] =
Added(c, list, parser) ==
    [threw |-> FALSE, c |-> [list |-> list, byname |-> Put(c.byname, parser.name, parser)]]

\* add with the parser put after the one named `before`
add_after(c, parser, before) ==
    IF Truthy(before)
    THEN IF findIndex(c.list, before.name) = -1 THEN [threw |-> TRUE, c |-> c]
         ELSE Added(c, splice(c.list, findIndex(c.list, before.name) + 1, parser), parser)
    ELSE Added(c, Append(c.list, parser), parser)

\* add(parser, before) on the collection c: the collection after the call,
\* and whether the call threw 'no parser called ...'
add(c, parser, before) ==
    IF Truthy(before)
    THEN IF findIndex(c.list, before.name) = -1 THEN [threw |-> TRUE, c |-> c]
         ELSE Added(c, splice(c.list, findIndex(c.list, before.name), parser), parser)
    ELSE Added(c, Append(c.list, parser), parser)

\* blockparsers after the blockparsers.add({name: ...}) calls of the library
RECURSIVE Registered(_, _)
Registered(c, k) ==
    IF k > Len(blockparsers) THEN c
    ELSE Registered(add(c, [name |-> blockparsers[k], version |-> 1], NotGiven).c, k + 1)

\* ------------------------------------------------------------------------
\* The state machine of a call scratchmark(raw, printer)
\* ------------------------------------------------------------------------
VARIABLES
    parsers,  \* the ParserCollection blockparsers
    calls,    \* the number of calls of scratchmark begun so far
    pc,       \* the position of the call
    raw,      \* the first argument: the markdown text
    printer,  \* the second argument
    lines,    \* the line array of the top-level parse_blocks
    text,     \* parse_blocks' accumulated text lines
    ast,      \* parse_blocks' output so far, then the tree postprocessed
    w,        \* footnote_def.defs/cites, href_def.defs/links, config, error
    result    \* what the call returned

vars == <<parsers, calls, pc, raw, printer, lines, text, ast, w, result>>

NoResult == [pending |-> TRUE]

\* all sequences of at most n elements of S
RECURSIVE SeqsUpTo(_, _)
SeqsUpTo(S, n) ==
    IF n = 0 THEN {<<>>}
    ELSE LET r == SeqsUpTo(S, n - 1)
         IN  r \cup {Append(q, x) : q \in {q \in r : Len(q) = n - 1}, x \in S}

\* the documents of at most n lines of a vocabulary
Documents(vocabulary, n) == {Join(d, <<NL>>) : d \in SeqsUpTo(vocabulary, n) \ {<<>>}}

\* lines of the documents of Spec: text, heading, table rows, fences, list item
Vocabulary ==
    { <<>>,
      <<"a">>,
      <<"#", " ", "a">>,
      <<"|", "a", "|">>,
      <<"|", "-", "|">>,
      <<BT, BT, BT>>,
      <<BT, BT, BT, "o", "m", "i", "t">>,
      <<"*", " ", "a">> }

InitWith(documents, printers) ==
    /\ parsers = Registered(EmptyCollection, 1)
    /\ calls = 1
    /\ pc = "call"
    /\ raw \in documents
    /\ printer \in printers
    /\ lines = <<>>
    /\ text = <<>>
    /\ ast = <<>>
    /\ w = World0
    /\ result = NoResult

Init == InitWith(Documents(Vocabulary, MaxLines), Printers)

\* lines 105-121: the line normalizer
Normalize ==
    /\ pc = "call"
    /\ lines' = normalize(raw)
    /\ pc' = "init"
    /\ UNCHANGED <<parsers, calls, raw, printer, text, ast, w, result>>

\* the init hooks left out: the parsers keep what they collected
InitParsersKeep ==
    /\ pc = "init"
    /\ pc' = "blocks"
    /\ UNCHANGED <<parsers, calls, raw, printer, lines, text, ast, w, result>>

\* lines 123-129: the init hooks (fencehandler.config.init,
\* footnote_def.init, href_def.init); there is no preprocessor
InitParsers ==
    /\ pc = "init"
    /\ w' = World0
    /\ pc' = "blocks"
    /\ UNCHANGED <<parsers, calls, raw, printer, lines, text, ast, result>>

\* line 137: one round of the loop of the top-level parse_blocks
ParseBlocksStep ==
    /\ pc = "blocks"
    /\ lines # <<>>
    /\ \E st \in {BlockStep([lines |-> lines, text |-> text, ast |-> ast, w |-> w])} :
           /\ lines' = st.lines
           /\ text' = st.text
           /\ ast' = st.ast
           /\ w' = st.w
           /\ pc' = IF st.w.err # NoError THEN "thrown" ELSE "blocks"
    /\ UNCHANGED <<parsers, calls, raw, printer, result>>

\* line 137: the end of the top-level parse_blocks
ParseBlocksEnd ==
    /\ pc = "blocks"
    /\ lines = <<>>
    /\ \E st \in {BlockFinish([lines |-> lines, text |-> text, ast |-> ast, w |-> w])} :
           /\ text' = st.text
           /\ ast' = st.ast
           /\ w' = st.w
    /\ pc' = "post_inline"
    /\ UNCHANGED <<parsers, calls, raw, printer, lines, result>>

\* lines 140-142: no built-in inline parser has a postprocess hook
PostprocessInline ==
    /\ pc = "post_inline"
    /\ pc' = "post_footnote"
    /\ UNCHANGED <<parsers, calls, raw, printer, lines, text, ast, w, result>>

\* lines 143-148: fenced_codeblock.postprocess (no handler has the hook)
\* and footnote_def.postprocess
PostprocessFootnotes ==
    /\ pc = "post_footnote"
    /\ \E r \in {footnote_postprocess(ast, w)} :
           /\ ast' = r.ast
           /\ w' = r.w
           /\ pc' = IF r.w.err # NoError THEN "thrown" ELSE "post_href"
    /\ UNCHANGED <<parsers, calls, raw, printer, lines, text, result>>

\* lines 143-148: href_def.postprocess
PostprocessHref ==
    /\ pc = "post_href"
    /\ w' = href_postprocess(w)
    /\ pc' = "print"
    /\ UNCHANGED <<parsers, calls, raw, printer, lines, text, ast, result>>

\* the printer called before href_def.postprocess
CallPrinterEarly ==
    /\ pc = "post_href"
    /\ \E html \in {print(printer, Resolve(ast, w))} :
           result' = IF w.config = <<>> \/ ~IsString(printer) THEN html
                     ELSE [config |-> w.config, body |-> html]
    /\ pc' = "done"
    /\ UNCHANGED <<parsers, calls, raw, printer, lines, text, ast, w>>

\* lines 150-158
CallPrinter ==
    /\ pc = "print"
    /\ \E html \in {print(printer, Resolve(ast, w))} :
           result' = IF w.config = <<>> \/ ~IsString(printer) THEN html
                     ELSE [config |-> w.config, body |-> html]
    /\ pc' = "done"
    /\ UNCHANGED <<parsers, calls, raw, printer, lines, text, ast, w>>

Next ==
    \/ Normalize
    \/ InitParsers
    \/ ParseBlocksStep
    \/ ParseBlocksEnd
    \/ PostprocessInline
    \/ PostprocessFootnotes
    \/ PostprocessHref
    \/ CallPrinter

Spec == Init /\ [][Next]_vars

\* ------------------------------------------------------------------------
\* Documents with footnote citations and definitions, and a link
\* ------------------------------------------------------------------------
FootVocabulary ==
    { <<>>,
      <<"[", "^", "x", "]">>,
      <<"[", "^", "y", "]">>,
      <<"[", "^", "x", "]", "[", "^", "y", "]", "[", "^", "x", "]">>,
      <<">", " ", "[", "^", "x", "]">>,
      <<"[", "^", "x", "]", ":", " ", "d">>,
      <<"[", "^", "y", "]", ":", " ", "e">>,
      <<"[", "a", "]", "(", "x", ")">> }

InitFoot == InitWith(Documents(FootVocabulary, MaxFootLines), {"identity"})

SpecFoot == InitFoot /\ [][Next]_vars

\* ------------------------------------------------------------------------
\* Documents with links, images and reference definitions
\* ------------------------------------------------------------------------
RefVocabulary ==
    { <<>>,
      <<"a">>,
      <<"[", "a", "]", "(", "x", ")">>,
      <<"!", "[", "a", "]", "(", "x", ")">>,
      <<"[", "a", "]", "(", "y", ")">>,
      <<"[", "]", "(", "x", ")">>,
      <<"[", "x", "]", ":", " ", "u">>,
      <<"[", "x", "]", ":">>,
      <<"[", "y", "]", ":", " ", "v">> }

InitRef == InitWith(Documents(RefVocabulary, MaxLines), {"identity"})

SpecRef == InitRef /\ [][Next]_vars

\* ------------------------------------------------------------------------
\* Documents with lists
\* ------------------------------------------------------------------------
ListVocabulary ==
    { <<>>,
      <<"a">>,
      <<" ", " ", "x">>,
      <<"*", " ", "a">>,
      <<"-", " ", "b">>,
      <<"a", ")", " ", "c">>,
      <<"N", ")", " ", "d">>,
      <<"1", ")", " ", "e">>,
      <<"1", ".", " ", "f">>,
      <<"i", ")", " ", "g">> }

InitList == InitWith(Documents(ListVocabulary, MaxLines), {"identity"})

SpecList == InitList /\ [][Next]_vars

\* ------------------------------------------------------------------------
\* Documents with tables: data rows, rows of alignment markers, a row
\* without cells
\* ------------------------------------------------------------------------
TableVocabulary ==
    { <<>>,
      <<"a">>,
      <<"|", "a", "|", "b", "|", "c", "|", "d", "|">>,
      <<"|", ":", "-", "|", "-", ":", "|", ":", "-", ":", "|", "-", "|">>,
      <<"|", "a", "|">>,
      <<"|", "-", "|">>,
      <<"|", " ", "-", ":", " ", "|">>,
      <<"|">> }

InitTable == InitWith(Documents(TableVocabulary, MaxLines), {"identity"})

SpecTable == InitTable /\ [][Next]_vars

\* ------------------------------------------------------------------------
\* Documents with fenced blocks of the types omit, verbatim, config, js and
\* of no type
\* ------------------------------------------------------------------------
FenceVocabulary ==
    { <<>>,
      <<"a">>,
      <<"k", ":", " ", "v">>,
      FENCE,
      FENCE \o <<"o", "m", "i", "t">>,
      FENCE \o <<"v", "e", "r", "b", "a", "t", "i", "m">>,
      FENCE \o <<"c", "o", "n", "f", "i", "g">>,
      FENCE \o <<"j", "s">> }

InitFence == InitWith(Documents(FenceVocabulary, MaxLines), {"identity"})

SpecFence == InitFence /\ [][Next]_vars

\* ------------------------------------------------------------------------
\* Calls of add on a new ParserCollection
\* ------------------------------------------------------------------------
ParserNames == {"p", "q"}

\* parser objects: two of each name
Descriptors == {[name |-> n, version |-> v] : n \in ParserNames, v \in 1..2}

\* the second argument: none, the empty string, the names, a name no
\* parser has
Befores == {NotGiven, Named(""), Named("p"), Named("q"), Named("r")}

InitRegistry ==
    /\ parsers = EmptyCollection
    /\ calls = 0
    /\ pc = "registry"
    /\ raw = <<>>
    /\ printer = NoPrinter
    /\ lines = <<>>
    /\ text = <<>>
    /\ ast = <<>>
    /\ w = World0
    /\ result = NoResult

\* a call parsers.add(parser, before); result keeps the arguments and
\* whether the call threw
AddParser ==
    /\ pc = "registry"
    /\ Len(parsers.list) < MaxParsers
    /\ \E parser \in Descriptors, before \in Befores :
           \E r \in {add(parsers, parser, before)} :
               /\ parsers' = r.c
               /\ result' = [parser |-> parser, before |-> before, threw |-> r.threw]
    /\ UNCHANGED <<calls, pc, raw, printer, lines, text, ast, w>>

NextRegistry == AddParser

SpecRegistry == InitRegistry /\ [][NextRegistry]_vars

\* ------------------------------------------------------------------------
\* Documents of text lines, blank lines, headings and reference definitions
\* ------------------------------------------------------------------------
ParagraphVocabulary ==
    { <<>>,
      <<"a">>,
      <<"b">>,
      <<"#", " ", "a">>,
      <<"[", "x", "]", ":", " ", "u">> }

InitParagraph == InitWith(Documents(ParagraphVocabulary, MaxLines), {"identity"})

SpecParagraph == InitParagraph /\ [][Next]_vars

\* ------------------------------------------------------------------------
\* Documents with rules and images, at the top and inside other blocks
\* ------------------------------------------------------------------------
NodeVocabulary ==
    { <<>>,
      <<"a">>,
      <<"-", "-", "-">>,
      <<"!", "[", "a", "]", "(", "x", ")">>,
      <<"#", " ", "a">>,
      <<">", " ", "-", "-", "-">>,
      <<"*", " ", "!", "[", "a", "]", "(", "x", ")">> }

InitNode == InitWith(Documents(NodeVocabulary, MaxLines), {"identity"})

SpecNode == InitNode /\ [][Next]_vars

\* ------------------------------------------------------------------------
\* Calls of scratchmark one after the other on the same parser collections
\* ------------------------------------------------------------------------
SeqVocabulary ==
    { <<"[", "^", "x", "]">>,
      <<"[", "^", "x", "]", ":", " ", "d">>,
      <<"[", "a", "]", "(", "x", ")">>,
      <<"[", "x", "]", ":", " ", "u">> }

SeqDocuments == Documents(SeqVocabulary, MaxSeqLines)

InitSeq == InitWith(SeqDocuments, {"identity"})

\* the next call of scratchmark, after the one before returned or threw:
\* lines, text and ast are locals of the call, and what footnote_def,
\* href_def and the config hold is what the call before left there
CallAgain ==
    /\ pc \in {"done", "thrown"}
    /\ calls < MaxCalls
    /\ calls' = calls + 1
    /\ raw' \in SeqDocuments
    /\ pc' = "call"
    /\ lines' = <<>>
    /\ text' = <<>>
    /\ ast' = <<>>
    /\ result' = NoResult
    /\ UNCHANGED <<parsers, printer, w>>

NextSeq == Next \/ CallAgain

SpecSeq == InitSeq /\ [][NextSeq]_vars

\* ------------------------------------------------------------------------
\* A call of scratchmark made while another call is in parse_blocks
\* ------------------------------------------------------------------------
\* the parsers keep what they hold
keep_hooks(held) == held

\* lines 123-129: what footnote_def, href_def and the config hold after
\* the init hooks
init_hooks(held) == World0

\* line 137 of the inner call on the document d
InnerBlocks(d, held) == parse_blocks(normalize(d), init_hooks(held))

\* lines 143-148 of the inner call, unless it threw before
InnerFootnotes(b) ==
    IF b.w.err # NoError THEN b ELSE footnote_postprocess(b.ast, b.w)

InnerHref(f) == IF f.w.err # NoError THEN f.w ELSE href_postprocess(f.w)

\* cite.key = tonumbers[cite.key]: the key of a numbered citation is its
\* number when the call is over
KeysNumbered(held) ==
    [held EXCEPT !.cites = [k \in 1..Len(held.cites) |->
        IF held.cites[k].numbered
        THEN [held.cites[k] EXCEPT !.key = ToStr(held.cites[k].number)]
        ELSE held.cites[k]]]

\* what footnote_def, href_def and the config hold after scratchmark(d)
\* called when they hold `held`
InnerCall(d, held) == KeysNumbered(InnerHref(InnerFootnotes(InnerBlocks(d, held))))

ReenterVocabulary == SeqVocabulary \cup {<<>>}

\* the documents of the inner call: a citation, a definition, a reference
\* definition, and a citation with its definition
InnerDocuments ==
    { <<"[", "^", "x", "]">>,
      <<"[", "^", "x", "]", ":", " ", "d">>,
      <<"[", "x", "]", ":", " ", "u">>,
      <<"[", "^", "x", "]", NL, "[", "^", "x", "]", ":", " ", "d">> }

InitReenter == InitWith(Documents(ReenterVocabulary, MaxSeqLines), {"identity"})

\* a block parser called in a round of parse_blocks calls scratchmark(d)
\* and returns nothing.  The nodes the outer call has made are no longer
\* in footnote_def.cites and href_def.links, so they stay as they are;
\* an exception of the inner call ends the outer call.
Reenter ==
    /\ pc = "blocks"
    /\ lines # <<>>
    /\ calls < MaxCalls
    /\ calls' = calls + 1
    /\ \E d \in InnerDocuments : \E n \in {InnerCall(d, w)} :
           /\ w' = n
           /\ pc' = IF n.err # NoError THEN "thrown" ELSE "blocks"
    /\ ast' = Resolve(ast, w)
    /\ UNCHANGED <<parsers, raw, printer, lines, text, result>>

NextReenter == Next \/ Reenter

SpecReenter == InitReenter /\ [][NextReenter]_vars

\* ------------------------------------------------------------------------
\* Documents with lines that more than one block parser takes
\* ------------------------------------------------------------------------
OrderVocabulary ==
    { <<>>,
      <<"a">>,
      <<"<", "h", "e", "a", "d", ">">>,
      <<"<", "/", "h", "e", "a", "d", ">">>,
      <<"<", "b", ">">>,
      <<"#", " ", "a">>,
      <<"|", "-", "|">> }

InitOrder == InitWith(Documents(OrderVocabulary, MaxLines), {"identity"})

SpecOrder == InitOrder /\ [][Next]_vars

\* ------------------------------------------------------------------------
\* Lists with indented lines
\* ------------------------------------------------------------------------
DedentVocabulary ==
    { <<>>,
      <<"*", " ", "a">>,
      <<"1", ")", " ", "e">>,
      <<" ", "x">>,
      <<" ", " ", " ", "y">>,
      <<" ", " ", " ", " ", "z">> }

InitDedent == InitWith(Documents(DedentVocabulary, MaxLines), {"identity"})

SpecDedent == InitDedent /\ [][Next]_vars

\* ------------------------------------------------------------------------
\* The line normalizer of scratchmark on its own
\* ------------------------------------------------------------------------
TextAlphabet == {"a", " ", "\t", BS, NL}

InitNormalizer ==
    /\ parsers = Registered(EmptyCollection, 1)
    /\ calls = 0
    /\ pc = "normalizer"
    /\ raw \in SeqsUpTo(TextAlphabet, MaxTextLen)
    /\ printer = NoPrinter
    /\ lines = <<>>
    /\ text = <<>>
    /\ ast = <<>>
    /\ w = World0
    /\ result = NoResult

\* lines 105-121 applied to raw
NormalizeText ==
    /\ pc = "normalizer"
    /\ lines' = normalize(raw)
    /\ pc' = "normalized"
    /\ UNCHANGED <<parsers, calls, raw, printer, text, ast, w, result>>

NextNormalizer == NormalizeText

SpecNormalizer == InitNormalizer /\ [][NextNormalizer]_vars

\* ------------------------------------------------------------------------
\* A call parse_inline(raw) on its own
\* ------------------------------------------------------------------------
InlineAlphabet == {"a", "*", "_", "^", BS, BT, "[", "]", "(", ")"}

STRONG == <<"*", "*">>

\* '**' + X + '**'
Wrapped(X) == STRONG \o X \o STRONG

\* an inner span written inside an outer span:
\* outer 'a ' inner 'b' inner ' c' outer
Nested(outer, inner) ==
    outer \o <<"a", " ">> \o inner \o <<"b">> \o inner \o <<" ", "c">> \o outer

EmMarks == {<<"*">>, <<"_">>}
StrongMarks == {<<"*", "*">>, <<"_", "_">>}

NestedInputs ==
    {Nested(o, i) : o \in StrongMarks, i \in EmMarks}
        \cup {Nested(o, i) : o \in EmMarks, i \in StrongMarks}

InlineInputs ==
    {Wrapped(X) : X \in SeqsUpTo(InlineAlphabet, MaxInlineLen)} \cup NestedInputs

InitInline ==
    /\ parsers = Registered(EmptyCollection, 1)
    /\ calls = 0
    /\ pc = "inline"
    /\ raw \in InlineInputs
    /\ printer = NoPrinter
    /\ lines = <<>>
    /\ text = <<>>
    /\ ast = <<>>
    /\ w = World0
    /\ result = NoResult

ParseInlineCall ==
    /\ pc = "inline"
    /\ \E r \in {parse_inline(raw, 0, NoEnder, w)} :
           /\ ast' = r.nodes
           /\ w' = r.w
    /\ pc' = "inline_done"
    /\ UNCHANGED <<parsers, calls, raw, printer, lines, text, result>>

NextInline == ParseInlineCall

SpecInline == InitInline /\ [][NextInline]_vars

\* ------------------------------------------------------------------------
\* A call parse_inline(raw) on a code span or a footnote citation
\* ------------------------------------------------------------------------
CaptureAlphabet == {"a", "*", BS}

CodeSpan(X) == <<BT>> \o X \o <<BT>>
Citation(X) == <<"[", "^">> \o X \o <<"]">>

CaptureInputs ==
    {CodeSpan(X) : X \in SeqsUpTo(CaptureAlphabet, MaxInlineLen)}
        \cup {Citation(X) : X \in SeqsUpTo(CaptureAlphabet, MaxInlineLen)}

InitCapture ==
    /\ parsers = Registered(EmptyCollection, 1)
    /\ calls = 0
    /\ pc = "inline"
    /\ raw \in CaptureInputs
    /\ printer = NoPrinter
    /\ lines = <<>>
    /\ text = <<>>
    /\ ast = <<>>
    /\ w = World0
    /\ result = NoResult

SpecCapture == InitCapture /\ [][NextInline]_vars

\* ------------------------------------------------------------------------
\* A call parse_inline(raw) on texts of span marks
\* ------------------------------------------------------------------------
MarkAlphabet == {"a", "*", "_", BS}

InitMarks ==
    /\ parsers = Registered(EmptyCollection, 1)
    /\ calls = 0
    /\ pc = "inline"
    /\ raw \in SeqsUpTo(MarkAlphabet, MaxInlineLen + 1)
    /\ printer = NoPrinter
    /\ lines = <<>>
    /\ text = <<>>
    /\ ast = <<>>
    /\ w = World0
    /\ result = NoResult

SpecMarks == InitMarks /\ [][NextInline]_vars

\* ------------------------------------------------------------------------
\* parse_inline on texts of emphasis marks, brackets and parentheses
\* ------------------------------------------------------------------------
LinkAlphabet == {"*", "[", "]", "(", ")"}

InitLinks ==
    /\ parsers = Registered(EmptyCollection, 1)
    /\ calls = 0
    /\ pc = "inline"
    /\ raw \in SeqsUpTo(LinkAlphabet, MaxInlineLen + 1)
    /\ printer = NoPrinter
    /\ lines = <<>>
    /\ text = <<>>
    /\ ast = <<>>
    /\ w = World0
    /\ result = NoResult

SpecLinks == InitLinks /\ [][NextInline]_vars

\* ------------------------------------------------------------------------
\* Properties of a call scratchmark(raw, printer)
\* ------------------------------------------------------------------------

\* C1: every top-level parse completes without throwing: no call ends in an
\* exception, whatever the document (tables, fenced blocks, citations).
C1_ParseNeverThrows == pc # "thrown"

\* what the call returns when the printer's output is html
Returned(html) ==
    IF w.config = <<>> \/ html.returned = "ast" THEN html
    ELSE [config |-> w.config, body |-> html]

RECURSIVE CiteNodes(_)

\* the citation nodes of a node, in document order
CiteNodesOf(n) ==
    IF "cid" \in DOMAIN n THEN <<n>>
    ELSE IF n.name = "verbatim" THEN <<>>
    ELSE IF n.name = "div" THEN CiteNodes(n.children[1])
    ELSE IF "children" \in DOMAIN n THEN CiteNodes(n.children)
    ELSE <<>>

\* the citation nodes of a tree, in document order
CiteNodes(nodes) ==
    IF nodes = <<>> THEN <<>> ELSE CiteNodesOf(nodes[1]) \o CiteNodes(Tail(nodes))

\* the label of a citation node as written in the document
CitedLabel(n) == w.cites[n.cid].key

\* the number of the label cited at place p of the citations c: labels are
\* numbered 1, 2, ... in the order of their first citation
FirstCitationRank(c, p) ==
    Cardinality({CitedLabel(c[q]) :
                    q \in 1..SetMin({r \in 1..p : CitedLabel(c[r]) = CitedLabel(c[p])})})

\* the citation node n shows the number k
ShowsNumber(n, k) ==
    /\ n.attributes = [href |-> <<"#footnote_">> \o ToStr(k)]
    /\ n.children = <<TextNode(ToStr(k))>>

\* C3: in the tree handed to the printer every citation node has href
\* '#footnote_n' and text 'n', n being the rank of its label in the order of
\* first citation in the document (citations x, y, x show 1, 2, 1).
C3_NumberedInCitationOrder ==
    pc \in {"print", "done"} =>
        \A p \in 1..Len(CiteNodes(ast)) :
            ShowsNumber(ResolveNode(CiteNodes(ast)[p], w),
                        FirstCitationRank(CiteNodes(ast), p))

RECURSIVE TextOf(_)

\* the text of a node: the text of its text nodes, in order
TextOfNode(n) ==
    IF n.name = "text" THEN n.text
    ELSE IF n.name \in {"verbatim", "div"} THEN <<>>
    ELSE IF "children" \in DOMAIN n THEN TextOf(n.children)
    ELSE <<>>

TextOf(nodes) ==
    IF nodes = <<>> THEN <<>> ELSE TextOfNode(nodes[1]) \o TextOf(Tail(nodes))

\* the labels cited, and the label with number k
CitedLabels(cites) == {cites[k].key : k \in 1..Len(cites)}
LabelNumbered(cites, k) ==
    CHOOSE key \in CitedLabels(cites) :
        \E p \in 1..Len(cites) :
            /\ cites[p].key = key
            /\ Cardinality({cites[q].key : q \in 1..p}) = k
            /\ \A q \in 1..(p - 1) : cites[q].key # key

\* the wrapper div of the footnotes for the citations cites and the
\* definitions fdefs: one ordered list, item k being the definition of the
\* label numbered k with id 'footnote_k'
IsFootnotes(div, cites, fdefs) ==
    /\ div.name = "div"
    /\ div.attributes = [class |-> "footnotes"]
    /\ Len(div.children) = 1
    /\ Len(div.children[1]) = 1
    /\ div.children[1][1].name = "ol"
    /\ Len(div.children[1][1].children) = Cardinality(CitedLabels(cites))
    /\ \A k \in 1..Len(div.children[1][1].children) :
          /\ div.children[1][1].children[k].name = "li"
          /\ div.children[1][1].children[k].attributes =
                [id |-> <<"footnote_">> \o ToStr(k)]
          /\ Has(fdefs, LabelNumbered(cites, k))
          /\ TextOfNode(div.children[1][1].children[k]) =
                TextOf(parse_blocks(fdefs[LabelNumbered(cites, k)], World0).ast)

\* C4: when a footnote is cited, the postprocess pass appends exactly one
\* 'footnotes' wrapper at the end of the document, with one ordered list
\* whose k-th item is the definition of the label numbered k and has id
\* 'footnote_k'; labels never cited add no item.
C4_FootnotesAppended ==
    [][(pc = "post_footnote" /\ w.cites # <<>>) =>
          /\ pc' = "post_href"
          /\ Len(ast') = Len(ast) + 1
          /\ SubSeq(ast', 1, Len(ast)) = ast
          /\ IsFootnotes(ast'[Len(ast')], w.cites, w.fdefs)]_vars

\* the target of a link or image node: href of a link, src of an image
Target(link) == IF link.name = "a" THEN link.href ELSE link.src

\* C6: a link or image whose target has no reference definition and a
\* citation whose label has no footnote definition never make the parse
\* fail: the postprocess pass completes and keeps the target.
C6_UnresolvedNeverFails ==
    [][/\ pc = "post_footnote" => pc' = "post_href"
       /\ pc = "post_href" =>
             /\ pc' = "print"
             /\ \A k \in 1..Len(w.links) :
                   ~Has(w.hdefs, Target(w.links[k])) =>
                       Target(w'.links[k]) = Target(w.links[k])]_vars

\* ------------------------------------------------------------------------
\* Properties of reference definitions
\* ------------------------------------------------------------------------

\* C5: the postprocess pass replaces the target of every link or image
\* whose target is the id of a reference definition by the definition's
\* text, wherever the definition is in the document.
C5_ReferencesResolved ==
    [][pc = "post_href" =>
          \A k \in 1..Len(w.links) :
              Has(w.hdefs, Target(w.links[k])) =>
                  Target(w'.links[k]) = w.hdefs[Target(w.links[k])]]_vars

\* ------------------------------------------------------------------------
\* Properties of lists
\* ------------------------------------------------------------------------

\* the line is a list item line
IsItemLine(line) == UnorderedPrefixLen(line) > 0 \/ OrderedPrefixLen(line) > 0

\* the numbering class of the marker of an ordered item: digits, upper or
\* lower roman, upper or lower letter
NumberingClass(marker) ==
    IF marker[1] \in Digits THEN "digits"
    ELSE IF \A i \in 1..Len(marker) : marker[i] \in {"M", "C", "L", "X", "I", "V"}
    THEN "upper roman"
    ELSE IF \A i \in 1..Len(marker) : marker[i] \in {"m", "c", "l", "x", "i", "v"}
    THEN "lower roman"
    ELSE IF marker[1] \in UpperLetters THEN "upper letter"
    ELSE "lower letter"

\* the style class of an item line: the marker character of an unordered
\* item; the numbering class and the closing punctuation of an ordered item
StyleClass(line) ==
    IF UnorderedPrefixLen(line) > 0 THEN <<"unordered", line[1]>>
    ELSE <<NumberingClass(Take(line, OrderedPrefixLen(line) - 2)),
           line[OrderedPrefixLen(line) - 1]>>

\* the list nodes at the top of a tree
Lists(nodes) == {nodes[k] : k \in {j \in 1..Len(nodes) : nodes[j].name \in {"ul", "ol"}}}

\* C7: two adjacent item lines whose markers have different style classes
\* are never items of the same list node (documents of two item lines).
C7_StyleChangeSplitsList ==
    (/\ pc = "post_inline"
     /\ Len(normalize(raw)) = 2
     /\ IsItemLine(normalize(raw)[1])
     /\ IsItemLine(normalize(raw)[2])
     /\ StyleClass(normalize(raw)[1]) # StyleClass(normalize(raw)[2]))
        => \A list \in Lists(ast) : Len(list.children) < 2

\* the lines are item lines of one style class, then blank lines up to the
\* end of the document: no blank line inside an item or between items
TightSource(ls) ==
    \E n \in 1..Len(ls) :
        /\ \A i \in 1..n : IsItemLine(ls[i]) /\ StyleClass(ls[i]) = StyleClass(ls[1])
        /\ \A i \in (n + 1)..Len(ls) : blankline(ls[i])

\* the lines are two item lines of one style class with a blank line
\* between them
LooseSource(ls) ==
    /\ Len(ls) = 3
    /\ IsItemLine(ls[1]) /\ blankline(ls[2]) /\ IsItemLine(ls[3])
    /\ StyleClass(ls[1]) = StyleClass(ls[3])

\* the item has its text in a p
HasParagraph(li) == \E k \in 1..Len(li.children) : li.children[k].name = "p"

\* C8: the items of a list without a blank line inside an item or between
\* items hold their text as inline children, with no p ('* a\n* b\n' gives
\* one ul of two li with one text child each); with a blank line between
\* items every item has its text in a p.
C8_TightAndLoose ==
    pc = "post_inline" =>
        /\ TightSource(normalize(raw)) =>
              /\ Cardinality(Lists(ast)) = 1
              /\ \A list \in Lists(ast) :
                    /\ Len(list.children) = Cardinality({i \in 1..Len(normalize(raw)) :
                                                            IsItemLine(normalize(raw)[i])})
                    /\ \A k \in 1..Len(list.children) : ~HasParagraph(list.children[k])
        /\ LooseSource(normalize(raw)) =>
              \A list \in Lists(ast) :
                  \A k \in 1..Len(list.children) : HasParagraph(list.children[k])

\* ------------------------------------------------------------------------
\* Properties of the inline parse of '**' + X + '**' and of nested spans
\* ------------------------------------------------------------------------

\* raw is '**' + X + '**' for the X XOf(raw)
IsWrapped(t) == Len(t) >= 4 /\ StartsWith(t, STRONG) /\ EndsWith(t, STRONG)
XOf(t) == Slice(t, 2, Len(t) - 2)

\* X contains no unescaped '*': every '*' of X follows a backslash
NoUnescapedStar(X) == \A i \in 1..Len(X) : X[i] = "*" => (i > 1 /\ X[i - 1] = BS)

\* the tree of a parse r as the printer sees it
TreeOf(r) == Resolve(r.nodes, r.w)

\* the inline parse of X alone
InlineOf(X) == TreeOf(parse_inline(X, 0, NoEnder, World0))

\* every span opened in X is closed in X: the parse of X alone ends at the
\* end of X, not past it as the parse of an unterminated span does
ClosedSpans(X) == parse_inline(X, 0, NoEnder, World0).cursor <= Len(X)

\* '**' + X + '**' parsed to one strong node with the parse of X as children
IsStrongOf(tree, X) ==
    tree = <<MarkInline([name |-> "strong", children |-> InlineOf(X)])>>

\* C9: for every X with no unescaped '*' which does not end in a backslash
\* and closes every span it opens, the inline parse of '**' + X + '**' is
\* one strong node whose children are the inline parse of X alone.
C9_StrongWrapsClosedX ==
    (/\ pc = "inline_done"
     /\ IsWrapped(raw)
     /\ NoUnescapedStar(XOf(raw))
     /\ ~EndsWith(XOf(raw), <<BS>>)
     /\ ClosedSpans(XOf(raw)))
        => IsStrongOf(Resolve(ast, w), XOf(raw))

\* C9 as stated: for every X with no unescaped '*', the inline parse of
\* '**' + X + '**' is one strong node whose children are the parse of X.
C9_StrongWrapsX ==
    (pc = "inline_done" /\ IsWrapped(raw) /\ NoUnescapedStar(XOf(raw)))
        => IsStrongOf(Resolve(ast, w), XOf(raw))

\* '**_a_**' was parsed: X = '_a_' holds an em span and closes it
C9_Witness ==
    /\ pc = "inline_done"
    /\ raw = Wrapped(<<"_", "a", "_">>)
    /\ NoUnescapedStar(XOf(raw)) /\ ClosedSpans(XOf(raw))
    /\ InlineOf(XOf(raw)) = <<MarkInline([name |-> "em",
                                          children |-> <<MarkInline(TextNode(<<"a">>))>>])>>

\* the node name of the span a mark opens
SpanName(mark) == IF Len(mark) = 2 THEN "strong" ELSE "em"

\* C10: an em span written inside a strong span and a strong span written
\* inside an em span parse to one outer node with the inner node as a child.
C10_SpansNest ==
    pc = "inline_done" =>
        \A outer \in EmMarks \cup StrongMarks : \A inner \in EmMarks \cup StrongMarks :
            (SpanName(outer) # SpanName(inner) /\ raw = Nested(outer, inner)) =>
                /\ Len(ast) = 1
                /\ ast[1].name = SpanName(outer)
                /\ \E k \in 1..Len(ast[1].children) :
                      ast[1].children[k].name = SpanName(inner)

\* ------------------------------------------------------------------------
\* Properties of tables
\* ------------------------------------------------------------------------

\* the line is a table row: it starts with '|'
IsRowLine(line) == StartsWith(line, <<"|">>)

\* the line is a row of alignment markers: at least one cell, every cell
\* dashes with an optional colon on either side
IsMarkerRow(line) ==
    /\ IsRowLine(line)
    /\ Cols(line) # <<>>
    /\ \A i \in 1..Len(Cols(line)) : IsAlignCell(Cols(line)[i])

\* the line is a row of data: a row with a cell which is no alignment marker
IsDataRow(line) ==
    /\ IsRowLine(line)
    /\ \E i \in 1..Len(Cols(line)) : ~IsAlignCell(Cols(line)[i])

\* a marker cell without the spaces around it
Marker(c) == trimRight(SliceFrom(c, LeadingSpaces(c)))

\* the alignment a marker cell asks for: ':---' left, '---:' right,
\* ':---:' center, '---' none
MarkerAlignment(c) ==
    IF Head(Marker(c)) = ":" /\ Marker(c)[Len(Marker(c))] = ":" THEN "center"
    ELSE IF Head(Marker(c)) = ":" THEN "left"
    ELSE IF Marker(c)[Len(Marker(c))] = ":" THEN "right"
    ELSE ""

\* the alignment of column i under the marker row markers
ColumnAlignment(markers, i) ==
    IF i <= Len(Cols(markers)) THEN MarkerAlignment(Cols(markers)[i]) ELSE ""

\* the cell has the text-align style a, or no style when a is none
HasAlignment(cell, a) ==
    IF a = "" THEN "attributes" \notin DOMAIN cell
    ELSE "attributes" \in DOMAIN cell
         /\ cell.attributes = [style |-> <<"text-align:", a>>]

\* tr is the row of the line: one cell of the given name for each cell of
\* the line, each aligned as its column
IsRowOf(tr, line, cellname, markers) ==
    /\ tr.name = "tr"
    /\ Len(tr.children) = Len(Cols(line))
    /\ \A i \in 1..Len(tr.children) :
          /\ tr.children[i].name = cellname
          /\ HasAlignment(tr.children[i], ColumnAlignment(markers, i))

\* the number of table rows at the head of the lines
RowLines(ls) == IF \A i \in 1..Len(ls) : IsRowLine(ls[i]) THEN Len(ls)
                ELSE SetMin({i \in 1..Len(ls) : ~IsRowLine(ls[i])}) - 1

NoMarkerRow(ls) ==
    /\ ls # <<>>
    /\ IsDataRow(ls[1])
    /\ (Len(ls) >= 2 /\ IsRowLine(ls[2])) => IsDataRow(ls[2])

\* C12: a table none of whose first two rows is a row of alignment markers
\* parses, without an error, to a table node with a single tbody which holds
\* all the rows, with td cells only and no alignment style.
C12_NoAlignmentRowParses ==
    NoMarkerRow(normalize(raw)) =>
        /\ pc # "thrown"
        /\ pc = "post_inline" =>
              /\ ast # <<>>
              /\ ast[1].name = "table"
              /\ Len(ast[1].children) = 1
              /\ ast[1].children[1].name = "tbody"
              /\ Len(ast[1].children[1].children) = RowLines(normalize(raw))
              /\ \A k \in 1..Len(ast[1].children[1].children) :
                    IsRowOf(ast[1].children[1].children[k], normalize(raw)[k], "td",
                            <<"|">>)

\* the table has a header: a thead, or a th cell
HasHeader(table) ==
    \E k \in 1..Len(table.children) :
        \/ table.children[k].name = "thead"
        \/ \E r \in 1..Len(table.children[k].children) :
              \E c \in 1..Len(table.children[k].children[r].children) :
                  table.children[k].children[r].children[c].name = "th"

\* the rows of data of the table, in the tbody
BodyRows(table) ==
    Cardinality({k \in 1..Len(table.children) : table.children[k].name = "tbody"}) = 1
    /\ \A k \in 1..Len(table.children) :
           table.children[k].name = "tbody" =>
               Len(table.children[k].children)
                   = Cardinality({i \in 1..RowLines(normalize(raw)) :
                                     i > 2 \/ IsDataRow(normalize(raw)[i])})

\* C13: a table has a header exactly when its row of alignment markers is
\* row 2; when the row of alignment markers is row 1 the table has no thead
\* and every row of data is a row of the tbody.
C13_HeaderIffMarkersInRowTwo ==
    (/\ pc = "post_inline"
     /\ Len(normalize(raw)) >= 2
     /\ IsRowLine(normalize(raw)[1]) /\ IsRowLine(normalize(raw)[2])
     /\ IsMarkerRow(normalize(raw)[1]) # IsMarkerRow(normalize(raw)[2])
     /\ IsMarkerRow(normalize(raw)[1]) \/ IsDataRow(normalize(raw)[1])
     /\ IsMarkerRow(normalize(raw)[2]) \/ IsDataRow(normalize(raw)[2]))
        => /\ ast # <<>>
           /\ ast[1].name = "table"
           /\ HasHeader(ast[1]) <=> IsMarkerRow(normalize(raw)[2])
           /\ IsMarkerRow(normalize(raw)[1]) => BodyRows(ast[1])

\* ------------------------------------------------------------------------
\* Properties of fenced blocks
\* ------------------------------------------------------------------------

\* the lines are one fenced block: an opening fence, lines which are no
\* fence, a closing fence
IsFenced(ls) ==
    /\ Len(ls) >= 2
    /\ StartsWith(ls[1], FENCE)
    /\ ls[Len(ls)] = FENCE
    /\ \A i \in 2..(Len(ls) - 1) : ~StartsWith(ls[i], FENCE)

\* the text after the opening fence, and the lines between the fences
FenceType(ls) == SliceFrom(ls[1], 3)
FenceBody(ls) == SubSeq(ls, 2, Len(ls) - 1)

\* a 'key: value' line of a config block is stored in config
Configured(line, config) ==
    Len(split(line, ":")) = 2 =>
        /\ Has(config, trimRight(split(line, ":")[1]))
        /\ config[trimRight(split(line, ":")[1])] =
              SliceFrom(split(line, ":")[2], LeadingSpaces(split(line, ":")[2]))

\* C14: a fenced block is dispatched on the text after its opening fence:
\* omit gives nothing in the tree, verbatim gives a verbatim node with the
\* lines of the block as text children, config stores every 'key: value'
\* line in config and gives nothing in the tree, any other type gives a
\* codeblock node with the type.
C14_FenceDispatch ==
    IsFenced(normalize(raw)) =>
        /\ pc # "thrown"
        /\ pc = "post_inline" =>
              /\ FenceType(normalize(raw)) = <<"o", "m", "i", "t">> => ast = <<>>
              /\ FenceType(normalize(raw)) = <<"v", "e", "r", "b", "a", "t", "i", "m">> =>
                    ast = << [name |-> "verbatim",
                              children |-> [i \in 1..Len(FenceBody(normalize(raw))) |->
                                              TextNode(FenceBody(normalize(raw))[i])]] >>
              /\ FenceType(normalize(raw)) = <<"c", "o", "n", "f", "i", "g">> =>
                    /\ ast = <<>>
                    /\ \A i \in 1..Len(FenceBody(normalize(raw))) :
                          Configured(FenceBody(normalize(raw))[i], w.config)
              /\ FenceType(normalize(raw)) \notin fencehandler =>
                    /\ Len(ast) = 1
                    /\ ast[1].name = "codeblock"
                    /\ ast[1].type = FenceType(normalize(raw))

\* ------------------------------------------------------------------------
\* Properties of ParserCollection.add
\* ------------------------------------------------------------------------

\* the list without its element at place i
Without(list, i) == SubSeq(list, 1, i - 1) \o SubSeq(list, i + 1, Len(list))

\* a parser of the list has the name
IsRegistered(list, name) == \E i \in 1..Len(list) : list[i].name = name

\* the list next is the list with the parser d put immediately before its
\* first parser of the given name, the other parsers in their order
InsertedBefore(list, next, d, name) ==
    \E i \in 1..(Len(next) - 1) :
        /\ next[i] = d
        /\ next[i + 1].name = name
        /\ \A j \in 1..(i - 1) : next[j].name # name
        /\ Without(next, i) = list

\* C15: add(parser) with no `before` (none given, or the empty string)
\* appends the parser; add(parser, before) with `before` the name of a
\* parser of the collection puts it immediately before that parser and
\* leaves the order of the others; both set byname[parser.name]; add with a
\* `before` which names no parser throws and leaves list and byname as
\* they were.
C15_AddAppendsInsertsOrFails ==
    [][pc = "registry" =>
          /\ ~Truthy(result'.before) =>
                /\ ~result'.threw
                /\ parsers'.list = Append(parsers.list, result'.parser)
                /\ parsers'.byname =
                      Put(parsers.byname, result'.parser.name, result'.parser)
          /\ (Truthy(result'.before) /\ IsRegistered(parsers.list, result'.before.name)) =>
                /\ ~result'.threw
                /\ InsertedBefore(parsers.list, parsers'.list, result'.parser,
                                  result'.before.name)
                /\ parsers'.byname =
                      Put(parsers.byname, result'.parser.name, result'.parser)
          /\ (Truthy(result'.before) /\ ~IsRegistered(parsers.list, result'.before.name)) =>
                /\ result'.threw
                /\ parsers' = parsers]_vars

\* a parser was put between two parsers, before the one named
C15_Witness ==
    /\ pc = "registry"
    /\ Len(parsers.list) = 3
    /\ result # NoResult
    /\ ~result.threw
    /\ result.before = Named("q")
    /\ parsers.list[2] = result.parser
    /\ parsers.list[1].name = "p"
    /\ parsers.list[3].name = "q"

\* ------------------------------------------------------------------------
\* Properties of the line normalizer
\* ------------------------------------------------------------------------

\* C16: the line normalizer is idempotent: applied to the text of the
\* lines it returned (the lines joined by newlines) it returns the same
\* lines.
C16_NormalizeIdempotent ==
    pc = "normalized" => normalize(Join(lines, <<NL>>)) = lines

\* ------------------------------------------------------------------------
\* Paragraphs and text runs
\* ------------------------------------------------------------------------
\* what the block parsers make of a line on its own
Alone(l) == TryBlockParsers(1, <<l>>, World0)

\* a non-blank line no block parser matches
Unmatched(l) == ~blankline(l) /\ ~Alone(l).ok

\* a line a block parser turns into an omit node
Omitted(l) == ~blankline(l) /\ Alone(l).ok /\ Alone(l).node.name = "omit"

\* the maximal run of unmatched lines from line i of ls ends at line RunEnd
RECURSIVE RunEnd(_, _)
RunEnd(ls, i) ==
    IF i < Len(ls) /\ Unmatched(ls[i + 1]) THEN RunEnd(ls, i + 1) ELSE i

RunStart(ls, i) == Unmatched(ls[i]) /\ (i = 1 \/ ~Unmatched(ls[i - 1]))

BlankEnded(ls, i) ==
    RunEnd(ls, i) < Len(ls) /\ blankline(ls[RunEnd(ls, i) + 1])

RunNodes(ls, i) ==
    parse_inline(Join(SubSeq(ls, i, RunEnd(ls, i)), <<NL>>), 0, NoEnder, World0).nodes

\* what line i of ls adds to the output sequence when a run is a p node
\* exactly if a blank line ends it, and is spliced otherwise
Output(ls, i) ==
    IF blankline(ls[i]) THEN <<TextNode(<<>>)>>
    ELSE IF Unmatched(ls[i])
    THEN IF ~RunStart(ls, i) THEN <<>>
         ELSE IF BlankEnded(ls, i)
         THEN <<[name |-> "p", children |-> RunNodes(ls, i)]>>
         ELSE RunNodes(ls, i)
    ELSE IF Omitted(ls[i]) THEN <<>>
    ELSE <<Alone(ls[i]).node>>

RECURSIVE Outputs(_, _)
Outputs(ls, i) ==
    IF i > Len(ls) THEN <<>> ELSE Output(ls, i) \o Outputs(ls, i + 1)

\* the lines of ls that are not turned into omit nodes
Kept(ls) == SelectSeq(ls, LAMBDA l : ~Omitted(l))

RECURSIVE NodesOf(_)
Below(n) ==
    IF "children" \notin DOMAIN n \/ n.name = "verbatim" THEN {}
    ELSE IF n.name = "div" THEN NodesOf(n.children[1])
    ELSE NodesOf(n.children)

NodesOf(tree) ==
    UNION {{tree[k]} \cup Below(tree[k]) : k \in 1..Len(tree)}

HasContent(n) == "children" \in DOMAIN n \/ "text" \in DOMAIN n

\* the elements without content
Void(n) == n.name \in {"hr", "img"}

\* C18: every node of the tree handed to the printer, at every depth, has
\* children or text; a void element has an empty children sequence.
C18_ChildrenOrText ==
    pc = "print" => \A n \in NodesOf(Resolve(ast, w)) : HasContent(n)

\* C18 as the code has it: the hr and img nodes have neither children nor
\* text, and every other node has children or text.
C18_ChildrenOrTextUnlessVoid ==
    pc = "print" => \A n \in NodesOf(Resolve(ast, w)) : HasContent(n) <=> ~Void(n)

\* a rule or an image below the top of the tree handed to the printer
C18_Witness ==
    /\ pc = "print"
    /\ \E k \in 1..Len(ast) : \E n \in Below(Resolve(ast, w)[k]) : Void(n)

\* ------------------------------------------------------------------------
\* Calls one after the other
\* ------------------------------------------------------------------------
\* scratchmark(t, pr) on parser collections that hold nothing
ReturnedValue(value) == [threw |-> FALSE, value |-> value]
ThrownError(err) == [threw |-> TRUE, value |-> err]

AloneHref(pr, f, h) ==
    ReturnedValue(IF h.config = <<>> \/ ~IsString(pr) THEN print(pr, Resolve(f.ast, h))
             ELSE [config |-> h.config, body |-> print(pr, Resolve(f.ast, h))])

AloneFootnotes(pr, f) ==
    IF f.w.err # NoError THEN ThrownError(f.w.err)
    ELSE AloneHref(pr, f, href_postprocess(f.w))

AloneBlocks(pr, b) ==
    IF b.w.err # NoError THEN ThrownError(b.w.err)
    ELSE AloneFootnotes(pr, footnote_postprocess(b.ast, b.w))

OnItsOwn(t, pr) == AloneBlocks(pr, parse_blocks(normalize(t), World0))

\* how the call in progress ended
Outcome == IF pc = "thrown" THEN ThrownError(w.err) ELSE ReturnedValue(result)

\* C19: in a sequence of calls that do not interleave, what a call returns
\* or throws is what the same call does on its own document alone: what
\* the calls before collected is reset by init.
C19_SequentialCallsIsolated ==
    pc \in {"done", "thrown"} => Outcome = OnItsOwn(raw, printer)

\* a second call has ended with a result that has a footnote in it, and
\* the parsers held footnotes and links of the call before when it began
C19_Witness ==
    /\ calls = 2
    /\ pc = "init"
    /\ w.cites # <<>>
    /\ w.links # <<>>
    /\ OnItsOwn(raw, printer).threw = FALSE
    /\ \E k \in 1..Len(OnItsOwn(raw, printer).value.ast) :
           OnItsOwn(raw, printer).value.ast[k].name = "div"

\* ------------------------------------------------------------------------
\* A call inside a call
\* ------------------------------------------------------------------------
\* what the parsers hold after a call on d that began with nothing held
LeftBy(d) == InnerCall(d, World0)

\* what the parsers can hold after a call that began with nothing held
LeftStates == {LeftBy(d) : d \in InnerDocuments}

Declines(bp, ls) ==
    ~BlockParse(bp, ls, w).ok /\ BlockParse(bp, ls, w).w.err = NoError

\* C21: a built-in block parser that signals failure leaves the line
\* sequence exactly as it was before the call; in particular the table
\* parser on rows that are all alignment rows.
C21_FailureLeavesLines ==
    (pc = "blocks" /\ lines # <<>>) =>
        \A k \in 1..Len(blockparsers) :
            Declines(blockparsers[k], lines) =>
                BlockParse(blockparsers[k], lines, w).lines = lines

\* ------------------------------------------------------------------------
\* The text of a captured span
\* ------------------------------------------------------------------------
IsCodeSpan(t) == t[1] = BT
\* the text between the marks of a code span or of a citation
Interior(t) == IF IsCodeSpan(t) THEN SubSeq(t, 2, Len(t) - 1) ELSE SubSeq(t, 3, Len(t) - 1)

\* the closing mark is not escaped, so the span ends at it
Closed(t) == Interior(t) = <<>> \/ Interior(t)[Len(Interior(t))] # BS

CodeNode(txt) == MarkInline([name |-> "code", children |-> <<TextNode(txt)>>])

\* the text of the <a> of a citation
CitedText(tree) == tree[1].children[1].children[1].text

\* C22: the text of a code span is the text between the backticks with its
\* backslashes kept; the text of a footnote citation has its escape
\* backslashes stripped.
C22_CodeKeepsBackslashes ==
    (pc = "inline_done" /\ Closed(raw)) =>
        IF IsCodeSpan(raw) THEN ast = <<CodeNode(Interior(raw))>>
        ELSE CitedText(ast) = noesc(Interior(raw))

\* C22 as the code has it: capture('code', ...) is made with the default
\* text filter, so the text of a code span has its escape backslashes
\* stripped as the text of a citation has.
C22_CodeStripsBackslashes ==
    (pc = "inline_done" /\ Closed(raw)) =>
        IF IsCodeSpan(raw) THEN ast = <<CodeNode(noesc(Interior(raw)))>>
        ELSE CitedText(ast) = noesc(Interior(raw))

\* a code span with an escape backslash in it has been parsed
C22_Witness ==
    /\ pc = "inline_done"
    /\ IsCodeSpan(raw)
    /\ Closed(raw)
    /\ noesc(Interior(raw)) # Interior(raw)
    /\ ast[1].name = "code"

\* ------------------------------------------------------------------------
\* The order in which the block parsers are offered the lines
\* ------------------------------------------------------------------------
\* what parser k makes of the lines of the round
Offer(k) == BlockParse(blockparsers[k], lines, w)

\* parser k returns a node or throws
Takes(k) == ~Declines(blockparsers[k], lines)

\* every parser registered before parser k declines the lines of the round
\* and leaves them, and what the parsers hold, as they were
EarlierDeclined(k) ==
    \A j \in 1..(k - 1) :
        Declines(blockparsers[j], lines) /\ Offer(j).lines = lines /\ Offer(j).w = w

\* the round of the block loop on the lines of the state
Round == TryBlockParsers(1, lines, w)

\* C23: the lines of a round are offered to the block parsers in registry
\* order.  The first parser that returns a node ends the round: the round
\* is what that parser made of the unchanged lines, every parser before it
\* having declined them, and no parser after it is asked.
C23_RegistryOrder ==
    (pc = "blocks" /\ lines # <<>>) =>
        \/ \E k \in 1..Len(blockparsers) :
               EarlierDeclined(k) /\ Takes(k) /\ Round = Offer(k)
        \/ /\ EarlierDeclined(Len(blockparsers))
           /\ ~Takes(Len(blockparsers))
           /\ ~Round.ok

\* a round on lines that two parsers take: the earlier one has them
C23_Witness ==
    /\ pc = "blocks"
    /\ lines # <<>>
    /\ \E j \in 1..Len(blockparsers) : \E k \in (j + 1)..Len(blockparsers) :
           /\ Takes(j)
           /\ Takes(k)
           /\ Offer(j) # Offer(k)
           /\ Round = Offer(j)

\* ------------------------------------------------------------------------
\* The pending text when a block parser succeeds
\* ------------------------------------------------------------------------
\* a block parser returns a node in the round on the lines of the state
Succeeds == pc = "blocks" /\ lines # <<>> /\ Round.ok /\ Round.w.err = NoError

\* the inline nodes of the pending text
Flushed ==
    IF text = <<>> THEN <<>>
    ELSE parse_inline(Join(text, <<NL>>), 0, NoEnder, Round.w).nodes

\* C24: whenever a block parser succeeds the pending text lines are flushed
\* as a text run before the loop goes on, also when the node is an omit
\* node (which is not appended): text lines before an omitted block are
\* never in the same inline run as text lines after it.
C24_FlushOnEverySuccess ==
    [][Succeeds =>
          /\ text' = <<>>
          /\ ast' = IF Round.node.name = "omit" THEN ast \o Flushed
                    ELSE ast \o Flushed \o <<Round.node>>]_vars

\* C24 as the code has it: the pending text is flushed, and the node
\* appended, when the node is not an omit node; after an omit node the
\* pending text and the output are as they were, and the text lines after
\* the omitted block join the same run.
C24_FlushUnlessOmit ==
    [][Succeeds =>
          IF Round.node.name = "omit" THEN text' = text /\ ast' = ast
          ELSE text' = <<>> /\ ast' = ast \o Flushed \o <<Round.node>>]_vars

\* a text line is pending after the omitted line that followed it
C24_Witness ==
    /\ pc = "blocks"
    /\ Len(normalize(raw)) >= 2
    /\ Unmatched(normalize(raw)[1])
    /\ Omitted(normalize(raw)[2])
    /\ Len(lines) = Len(normalize(raw)) - 2
    /\ text = <<normalize(raw)[1]>>
    /\ ast = <<>>

\* ------------------------------------------------------------------------
\* The selection of the nearest match in the inline loop
\* ------------------------------------------------------------------------
\* the terminators an inline parse is called with
Enders == {NoEnder, _start_href} \cup {inlineparsers[p].endsWith : p \in 1..6}

\* the selection of a round with the cursor at c and the terminator e, the
\* surviving parsers being those that matched when the cursor was at c0
Selected(t, c, e, c0) ==
    Nearest(t, c, Prune(t, c0, AllParsers), 1, EnderIndexOf(e, t, c), 0)

\* the positions at which the terminator and the parsers match
MatchPositions(t, c, e) ==
    {EnderIndexOf(e, t, c)}
        \cup {ParserIndexOf(p, t, c) : p \in {q \in 1..Len(inlineparsers) :
                                                 ParserIndexOf(q, t, c) # -1}}

\* n is the selection the claim describes
SelectsNearest(t, c, e, n) ==
    /\ n.idx = SetMin(MatchPositions(t, c, e))
    /\ n.first = 0 => EnderIndexOf(e, t, c) = n.idx
    /\ n.first # 0 =>
          /\ ParserIndexOf(n.first, t, c) = n.idx
          /\ \A p \in 1..(n.first - 1) : ParserIndexOf(p, t, c) # n.idx
    \* a '**' is not taken by the em parser for '*'
    /\ ParserIndexOf(1, t, c) = n.idx => n.first # 2

PhaseStep ==
    /\ pc = "call" => pc' = "init"
    /\ pc = "init" => pc' = "blocks" /\ lines' = lines /\ ast' = <<>>
    /\ pc = "blocks" =>
          /\ pc' \in {"blocks", "post_inline", "thrown"}
          /\ pc' = "post_inline" => lines = <<>>
    /\ pc = "post_inline" => pc' = "post_footnote" /\ ast' = ast
    /\ pc = "post_footnote" => pc' \in {"post_href", "thrown"}
    /\ pc = "post_href" => pc' = "print" /\ ast' = ast
    /\ pc = "print" => pc' = "done" /\ ast' = ast /\ w' = w
    /\ pc \notin {"done", "thrown"}
    /\ result' # result => pc = "print"
    /\ lines' # lines => pc \in {"call", "blocks"}

\* C26: within a call the phases are strictly ordered: the init hooks run
\* before a block parser is offered a line, the postprocess hooks run after
\* the block engine has returned the tree, the inline parsers' before the
\* block parsers', and the printer is called once, after all the hooks.
C26_PhasesInOrder ==
    /\ [][PhaseStep]_vars
    /\ [](result # NoResult <=> pc = "done")

\* a call has gone through every phase and returned the printer's result
C26_Witness ==
    /\ pc = "done"
    /\ result # NoResult
    /\ ast # <<>>

\* ------------------------------------------------------------------------
\* The dedent of list items
\* ------------------------------------------------------------------------
\* the kind of list the first of the lines starts, "none" where it starts none
KindAtHead(ls) ==
    IF ls = <<>> THEN "none"
    ELSE IF UnorderedPrefixLen(ls[1]) > 0 THEN "ul"
    ELSE IF OrderedPrefixLen(ls[1]) > 0 THEN "ol"
    ELSE "none"

\* the items the list parser hands to dedent when it is offered the lines
ItemsAtHead ==
    IF pc = "blocks" /\ KindAtHead(lines) # "none"
    THEN Let(CollectItems(lines, KindAtHead(lines), <<>>, <<>>), LAMBDA c :
             deblank(c.items, c.lines).items)
    ELSE <<>>

\* the non-blank lines of an item after its first
Continuation(item) == {i \in 2..Len(item.lines) : ~blankline(item.lines[i])}

\* the least indentation of the continuation lines, 2 where there are none
LeastOfLines(item) ==
    IF Continuation(item) = {} THEN 2
    ELSE SetMin({LeadingSpaces(item.lines[i]) : i \in Continuation(item)})

SpacesOf(n) == [i \in 1..n |-> " "]

\* dedent takes the marker from the first line of the item and exactly m
\* spaces from every continuation line
DedentedBy(item, m) ==
    Let(dedentItem(item), LAMBDA out :
        /\ Len(out.lines) = Len(item.lines)
        /\ item.prefix \o out.lines[1] = item.lines[1]
        /\ \A i \in 2..Len(item.lines) :
              IF blankline(item.lines[i]) THEN blankline(out.lines[i])
              ELSE SpacesOf(m) \o out.lines[i] = item.lines[i])

RECURSIVE TrailingBackslashes(_)
TrailingBackslashes(line) ==
    IF line # <<>> /\ line[Len(line)] = BS
    THEN 1 + TrailingBackslashes(SubSeq(line, 1, Len(line) - 1))
    ELSE 0

\* the last backslash of a line is unescaped when the line ends in an odd
\* number of them
EndsUnescaped(line) == TrailingBackslashes(line) % 2 = 1

\* the joining in which only an unescaped final backslash continues a line
RECURSIVE JoinUnescaped(_, _)
JoinUnescaped(joined, ls) ==
    IF ls = <<>> THEN joined
    ELSE IF EndsUnescaped(joined[Len(joined)])
    THEN JoinUnescaped(
             [joined EXCEPT ![Len(joined)] =
                 SubSeq(@, 1, Len(@) - 1) \o ls[1]],
             Tail(ls))
    ELSE JoinUnescaped(Append(joined, ls[1]), Tail(ls))

\* the right-trimmed lines of a text
TrimmedLines(t) ==
    [i \in 1..Len(SplitLines(ReplaceFirstTab(t))) |->
        trimRight(SplitLines(ReplaceFirstTab(t))[i])]

\* C28: the normalizer joins a line with the next one only when the line
\* ends in an unescaped backslash, removes that backslash and right-trims the
\* joined line; a line whose final backslash is escaped is not joined.
C28_JoinsOnlyUnescaped ==
    pc = "normalized" =>
        lines = [i \in 1..Len(JoinUnescaped(<<TrimmedLines(raw)[1]>>, Tail(TrimmedLines(raw)))) |->
                    trimRight(JoinUnescaped(<<TrimmedLines(raw)[1]>>, Tail(TrimmedLines(raw)))[i])]

\* ------------------------------------------------------------------------
\* The inline loop without the removal of parsers
\* ------------------------------------------------------------------------
RECURSIVE parse_inline_all(_, _, _, _)
RECURSIVE InlineLoopAll(_, _, _, _, _)

\* first.parse with the nested inline parses done without removal too
ParseWithAll(P, t, cursor, held) ==
    CASE P.kind = "delimited" ->
           ParseDelimited(P, parse_inline_all(t, cursor + Len(P.startsWith), P.endsWith, held))
      [] P.kind = "a" ->
           ParseLink(t, cursor, parse_inline_all(t, cursor + 1, _start_href, held))
      [] OTHER -> ParseWith(P, t, cursor, held)

\* lines 370-388 with r what first.parse returned at cursor
InlineAfterParseAll(t, cursor, ender, nodes, r) ==
    IF r.ok
    THEN InlineLoopAll(t, r.cursor, ender, Append(nodes, r.node), r.w)
    ELSE InlineLoopAll(t, cursor + 1, ender,
                       Append(nodes, TextNode(noesc(<<At(t, cursor)>>))), r.w)

\* lines 363-389 with n the nearest match among all the registered parsers
InlineAtMatchAll(t, cursor2, ender, nodes2, held, n) ==
    IF n.first = 0
    THEN [nodes |-> nodes2, cursor |-> cursor2, w |-> held]
    ELSE InlineAfterParseAll(t, cursor2, ender, nodes2,
                             ParseWithAll(inlineparsers[n.first], t, cursor2, held))

InlineTextAll(t, cursor, ender, nodes, held, n) ==
    IF n.idx > cursor
    THEN InlineAtMatchAll(t, n.idx, ender,
                          Append(nodes, TextNode(noesc(Slice(t, cursor, n.idx)))), held, n)
    ELSE InlineAtMatchAll(t, cursor, ender, nodes, held, n)

\* the loop of parse_inline in which every registered parser is asked for
\* its match in every round
InlineLoopAll(t, cursor, ender, nodes, held) ==
    IF ~(cursor < Len(t)) THEN [nodes |-> nodes, cursor |-> cursor, w |-> held]
    ELSE InlineTextAll(t, cursor, ender, nodes, held,
                       Nearest(t, cursor, AllParsers, 1, EnderIndexOf(ender, t, cursor), 0))

parse_inline_all(t, cursor, ender, held) ==
    MarkAll(InlineLoopAll(t, cursor, ender, <<>>, held))

\* the terminators that can match in a text of LinkAlphabet: none, the one
\* of a link text, the ones of the spans delimited by asterisks
LinkEnders == {NoEnder, _start_href, <<"*">>, <<"*", "*">>}

SameNodesAndCursor(r1, r2) == r1.nodes = r2.nodes /\ r1.cursor = r2.cursor

\* C29: removing an inline parser once it has no match is only an
\* optimization: for every text, cursor and terminator the inline loop
\* returns the nodes and the final cursor of the loop that asks every
\* registered parser in every round.
C29_PruningChangesNothing ==
    pc = "inline_done" =>
        /\ ast = parse_inline_all(raw, 0, NoEnder, World0).nodes
        /\ \A c \in 0..Len(raw) : \A e \in LinkEnders :
              SameNodesAndCursor(parse_inline(raw, c, e, World0),
                                 parse_inline_all(raw, c, e, World0))

LinkParser == CHOOSE p \in 1..Len(inlineparsers) : inlineparsers[p].kind = "a"

\* a link parse has failed at the first character and restored the cursor,
\* the link parser has no match after it and is removed, and a later round
\* of the loop has parsed an emphasis
C29_Witness ==
    /\ pc = "inline_done"
    /\ raw # <<>>
    /\ raw[1] = "["
    /\ ~InlineParse(LinkParser, raw, 0, World0).ok
    /\ ParserIndexOf(LinkParser, raw, 1) = -1
    /\ \E i \in 1..Len(ast) : ast[i].name = "em"

\* ------------------------------------------------------------------------
\* Termination of the loops
\* ------------------------------------------------------------------------
\* what is left for the block loop to do: two for every line, one for a
\* text accumulator that is still to be flushed
Remaining(ls, acc) == 2 * Len(ls) + (IF acc = <<>> THEN 0 ELSE 1)

\* a round of the block loop either takes at least one line or is the flush
\* of a paragraph, which leaves the blank line and empties the text
TakesOrFlushes ==
    \/ Len(lines') < Len(lines)
    \/ /\ lines' = lines
       /\ blankline(lines[1])
       /\ text # <<>>
       /\ text' = <<>>

\* a round of the block loop is followed by another one with less left to
\* do, and the loop is left only by returning with no line left
BlockRound ==
    pc = "blocks" =>
        \/ /\ pc' = "blocks"
           /\ TakesOrFlushes
           /\ Remaining(lines', text') < Remaining(lines, text)
        \/ /\ pc' = "post_inline"
           /\ lines = <<>>
           /\ lines' = <<>>

\* a round that is not ended by an exception
BlockRoundUnlessThrown == pc' # "thrown" => BlockRound

\* the inline loop on a text ends with the cursor at or after its end
InlineLoopEnds == parse_inline(raw, 0, NoEnder, World0).cursor >= Len(raw)

\* C30: the block loop terminates on every line sequence with the line
\* sequence empty, every round taking a line or flushing a paragraph, and
\* the inline loop terminates on every text.
C30_LoopsTerminate ==
    /\ [][BlockRound]_vars
    /\ []InlineLoopEnds

====
